---- MODULE Spec2Model ----
(***************************************************************************)
(* A model of the RAI chat server: the Conversation and Message models     *)
(* (server/models), the chat controller (handleMessage, generateAIResponse,*)
(* analyzeIntent, getConversationHistory, deleteConversation) and the AI   *)
(* service's text path with its primary and fallback providers.            *)
(***************************************************************************)
EXTENDS Integers, Sequences, FiniteSets, TLC

(***************************************************************************)
(* Strings.  A JavaScript string is modelled exactly, in run-length form:  *)
(* a sequence of runs <<character, count>> in which no count is 0 and no   *)
(* two neighbouring runs carry the same character.  A character is a       *)
(* one-character TLA+ string.  The run-length form keeps strings of 501 or *)
(* 10001 characters small, so the schema's length limits keep their real   *)
(* values.                                                                 *)
(***************************************************************************)
\* a + b, for strings a and b: the runs that meet at the seam are merged.
Concat(a, b) ==
    IF a = <<>> THEN b
    ELSE IF b = <<>> THEN a
    ELSE IF a[Len(a)][1] = b[1][1]
         THEN SubSeq(a, 1, Len(a) - 1) \o << <<b[1][1], a[Len(a)][2] + b[1][2]>> >> \o Tail(b)
         ELSE a \o b

\* The string of the runs rs[lo..hi], which need not be in normal form.
RECURSIVE NormRange(_, _, _)
NormRange(rs, lo, hi) ==
    IF lo > hi THEN <<>>
    ELSE IF lo = hi THEN (IF rs[lo][2] = 0 THEN <<>> ELSE <<rs[lo]>>)
    ELSE LET mid == (lo + hi) \div 2
         IN  Concat(NormRange(rs, lo, mid), NormRange(rs, mid + 1, hi))

Norm(rs) == NormRange(rs, 1, Len(rs))

\* The string whose characters are the elements of the tuple cs.
Str(cs) == Norm([i \in 1..Len(cs) |-> <<cs[i], 1>>])

\* The string made of n copies of the character ch.
Rep(ch, n) == Norm(<< <<ch, n>> >>)

RECURSIVE RunSum(_, _, _)
RunSum(s, lo, hi) ==
    IF lo > hi THEN 0
    ELSE IF lo = hi THEN s[lo][2]
    ELSE LET mid == (lo + hi) \div 2
         IN  RunSum(s, lo, mid) + RunSum(s, mid + 1, hi)

\* String.prototype.length
length(s) == RunSum(s, 1, Len(s))

RECURSIVE Take(_, _)
Take(s, k) ==
    IF k <= 0 \/ s = <<>> THEN <<>>
    ELSE LET h == Head(s)
         IN  IF h[2] >= k THEN << <<h[1], k>> >>
             ELSE <<h>> \o Take(Tail(s), k - h[2])

RECURSIVE Drop(_, _)
Drop(s, k) ==
    IF k <= 0 \/ s = <<>> THEN s
    ELSE LET h == Head(s)
         IN  IF h[2] > k THEN << <<h[1], h[2] - k>> >> \o Tail(s)
             ELSE Drop(Tail(s), k - h[2])

\* String.prototype.substring(from, to) for 0 <= from <= to.
substring(s, from, to) == Take(Drop(s, from), to - from)

Whitespace == {" "}

\* String.prototype.trim(): leading and trailing whitespace removed.
trim(s) ==
    LET a == IF s # <<>> /\ Head(s)[1] \in Whitespace THEN Tail(s) ELSE s
    IN  IF a # <<>> /\ a[Len(a)][1] \in Whitespace THEN SubSeq(a, 1, Len(a) - 1) ELSE a

UpperToLower ==
    [c \in {"A", "B", "C", "D", "E", "F", "G", "H", "I", "J", "K", "L", "M", "N", "O", "P",
            "Q", "R", "S", "T", "U", "V", "W", "X", "Y", "Z"} |->
        CASE c = "A" -> "a" [] c = "B" -> "b" [] c = "C" -> "c" [] c = "D" -> "d"
          [] c = "E" -> "e" [] c = "F" -> "f" [] c = "G" -> "g" [] c = "H" -> "h"
          [] c = "I" -> "i" [] c = "J" -> "j" [] c = "K" -> "k" [] c = "L" -> "l"
          [] c = "M" -> "m" [] c = "N" -> "n" [] c = "O" -> "o" [] c = "P" -> "p"
          [] c = "Q" -> "q" [] c = "R" -> "r" [] c = "S" -> "s" [] c = "T" -> "t"
          [] c = "U" -> "u" [] c = "V" -> "v" [] c = "W" -> "w" [] c = "X" -> "x"
          [] c = "Y" -> "y" [] c = "Z" -> "z"]

\* toLowerCase that leaves every letter as it is.
toLowerCaseKeepingCase(s) == s

\* String.prototype.toLowerCase()
toLowerCase(s) ==
    Norm([i \in 1..Len(s) |->
            <<IF s[i][1] \in DOMAIN UpperToLower THEN UpperToLower[s[i][1]] ELSE s[i][1],
              s[i][2]>>])

\* String.prototype.includes(w): w occurs in s as a substring.
includes(s, w) ==
    LET k == Len(w)
    IN  \/ k = 0
        \/ \E i \in 1..(Len(s) - k + 1) :
              \A j \in 1..k :
                 /\ s[i + j - 1][1] = w[j][1]
                 /\ IF j = 1 \/ j = k
                    THEN s[i + j - 1][2] >= w[j][2]
                    ELSE s[i + j - 1][2] = w[j][2]

(***************************************************************************)
(* The intent classifier (ChatController.analyzeIntent).  A confidence is  *)
(* written in hundredths: 90 stands for 0.9.                               *)
(***************************************************************************)
W_generate == Str(<<"g", "e", "n", "e", "r", "a", "t", "e">>)
W_create == Str(<<"c", "r", "e", "a", "t", "e">>)
W_image == Str(<<"i", "m", "a", "g", "e">>)
W_picture == Str(<<"p", "i", "c", "t", "u", "r", "e">>)
W_code == Str(<<"c", "o", "d", "e">>)
W_program == Str(<<"p", "r", "o", "g", "r", "a", "m">>)
W_function == Str(<<"f", "u", "n", "c", "t", "i", "o", "n">>)
W_write == Str(<<"w", "r", "i", "t", "e">>)
W_script == Str(<<"s", "c", "r", "i", "p", "t">>)
W_search == Str(<<"s", "e", "a", "r", "c", "h">>)
W_find == Str(<<"f", "i", "n", "d">>)
W_latest == Str(<<"l", "a", "t", "e", "s", "t">>)
W_voice == Str(<<"v", "o", "i", "c", "e">>)
W_speak == Str(<<"s", "p", "e", "a", "k">>)
W_audio == Str(<<"a", "u", "d", "i", "o">>)
W_analyze == Str(<<"a", "n", "a", "l", "y", "z", "e">>)
W_document == Str(<<"d", "o", "c", "u", "m", "e", "n", "t">>)
W_file == Str(<<"f", "i", "l", "e">>)

analyzeIntent(message) ==
    LET lowerMessage == toLowerCase(message)
        has(word) == includes(lowerMessage, word)
    IN  IF has(W_generate) /\ (has(W_image) \/ has(W_picture))
        THEN [type |-> "image_generation", confidence |-> 90]
        ELSE IF has(W_create) /\ (has(W_image) \/ has(W_picture))
        THEN [type |-> "image_generation", confidence |-> 90]
        ELSE IF has(W_code) \/ has(W_program) \/ has(W_function)
        THEN [type |-> "code_generation", confidence |-> 80]
        ELSE IF has(W_write) /\ (has(W_code) \/ has(W_script))
        THEN [type |-> "code_generation", confidence |-> 90]
        ELSE IF has(W_search) \/ has(W_find) \/ has(W_latest)
        THEN [type |-> "web_search", confidence |-> 70]
        ELSE IF has(W_voice) \/ has(W_speak) \/ has(W_audio)
        THEN [type |-> "voice_command", confidence |-> 80]
        ELSE IF has(W_analyze) \/ has(W_document) \/ has(W_file)
        THEN [type |-> "document_analysis", confidence |-> 70]
        ELSE [type |-> "text_response", confidence |-> 90]

(***************************************************************************)
(* AIService.detectLanguage: the language tag of a code reply.             *)
(***************************************************************************)
detectLanguage(code) ==
    LET lowerCode == toLowerCase(code)
        has(word) == includes(lowerCode, word)
    IN  IF has(W_function) /\ has(Str(<<"c", "o", "n", "s", "t">>)) /\ has(Str(<<"=", ">">>)) THEN "javascript"
        ELSE IF has(Str(<<"d", "e", "f", " ">>)) \/ has(Str(<<"i", "m", "p", "o", "r", "t", " ">>)) THEN "python"
        ELSE IF has(Str(<<"p", "u", "b", "l", "i", "c", " ", "c", "l", "a", "s", "s">>)) \/ has(Str(<<"p", "u", "b", "l", "i", "c", " ", "s", "t", "a", "t", "i", "c">>)) THEN "java"
        ELSE IF has(Str(<<"#", "i", "n", "c", "l", "u", "d", "e">>)) \/ has(Str(<<"i", "n", "t", " ", "m", "a", "i", "n">>)) THEN "cpp"
        ELSE IF has(Str(<<"<", "?", "p", "h", "p">>)) THEN "php"
        ELSE IF has(Str(<<"h", "t", "m", "l">>)) \/ has(Str(<<"<", "!", "D", "O", "C", "T", "Y", "P", "E">>)) THEN "html"
        ELSE IF has(Str(<<"c", "s", "s">>)) \/ (has(Str(<<"{">>)) /\ has(Str(<<":">>))) THEN "css"
        ELSE "unknown"

(***************************************************************************)
(* Schemas (server/models/conversation.js, server/models/message.js).      *)
(***************************************************************************)
TitleChars == 50
TitleMaxLength == 200
LastMessageMaxLength == 500
ContentMaxLength == 10000
HistoryLimit == 10
FindByConversationLimit == 50

MessageTypes == {"text", "image", "code", "voice", "file", "system"}

\* The paths the Message schema declares under metadata; strict mode drops the rest.
MetadataPaths ==
    {"model", "provider", "tokens", "responseTime", "intent", "confidence",
     "imageUrl", "imagePrompt", "imageSize",
     "language", "syntaxHighlighting", "executionResult",
     "audioUrl", "duration", "transcribedText",
     "fileName", "fileSize", "fileType", "downloadUrl",
     "isEdited", "editHistory", "reactions", "mentions", "links", "attachments"}

\* The schema's defaults under metadata: isEdited false, every array empty.
MetadataDefaults ==
    [isEdited |-> FALSE, editHistory |-> <<>>, reactions |-> <<>>, mentions |-> <<>>,
     links |-> <<>>, attachments |-> <<>>]

\* { ...a, ...b }
Spread(a, b) ==
    [k \in (DOMAIN a) \cup (DOMAIN b) |-> IF k \in DOMAIN b THEN b[k] ELSE a[k]]

\* metadata as a document holds it: undeclared paths dropped, defaults filled in.
CastMetadata(md) ==
    Spread(MetadataDefaults, [k \in (DOMAIN md) \cap MetadataPaths |-> md[k]])

\* A path that was never set (JavaScript undefined) where a string may stand.
undefined == << <<"undefined", 0>> >>

NoId == 0

\* title: required, trim, maxlength 200
ValidTitle(title) == title # undefined /\ length(title) > 0 /\ length(title) <= TitleMaxLength

\* tags[]: trim, maxlength 50
TagMaxLength == 50
ValidTags(tags) == \A i \in 1..Len(tags) : length(tags[i]) <= TagMaxLength

\* lastMessage: trim, maxlength 500
ValidLastMessage(lastMessage) ==
    lastMessage = undefined \/ length(lastMessage) <= LastMessageMaxLength

\* content: required, maxlength 10000
ValidContent(content) ==
    content # undefined /\ length(content) > 0 /\ length(content) <= ContentMaxLength

\* messageType: enum
ValidMessageType(messageType) == messageType \in MessageTypes

\* new Conversation({ userId, title }): setters applied, defaults filled in.
NewConversation(userId, title) ==
    [userId |-> userId, title |-> trim(title), lastMessage |-> undefined,
     messageCount |-> 0, sharedWith |-> <<>>, tags |-> <<>>]

\* new Message({ conversationId, sender, content, messageType, metadata })
NewMessage(conversationId, sender, content, messageType, metadata) ==
    [conversationId |-> conversationId, sender |-> sender, content |-> content,
     messageType |-> messageType, metadata |-> CastMetadata(metadata),
     status |-> "sent", isDeleted |-> FALSE, deletedAt |-> "", deletedBy |-> ""]

\* metadata.reactions[].type: enum
ReactionTypes == {"like", "love", "laugh", "wow", "sad", "angry"}

ValidReactions(reactions) == \A i \in 1..Len(reactions) : reactions[i].type \in ReactionTypes

\* What save() validates of a message document.
ValidMessage(doc) ==
    /\ ValidContent(doc.content)
    /\ ValidMessageType(doc.messageType)
    /\ ValidReactions(doc.metadata.reactions)

(***************************************************************************)
(* Fixed texts of the controller and of the AI service.                    *)
(***************************************************************************)
Ellipsis == Str(<<".", ".", ".">>)

ApologyText ==
    Str(<<
        "I", " ", "a", "p", "o", "l", "o", "g", "i", "z", "e", ",", " ", "b", "u", "t", " ", "I",
        "'", "m", " ", "h", "a", "v", "i", "n", "g", " ", "t", "r", "o", "u", "b", "l", "e", " ",
        "p", "r", "o", "c", "e", "s", "s", "i", "n", "g", " ", "y", "o", "u", "r", " ", "r", "e",
        "q", "u", "e", "s", "t", " ", "r", "i", "g", "h", "t", " ", "n", "o", "w", ".", " ", "P",
        "l", "e", "a", "s", "e", " ", "t", "r", "y", " ", "a", "g", "a", "i", "n", " ", "i", "n",
        " ", "a", " ", "m", "o", "m", "e", "n", "t", "." >>)

FallbackText ==
    Str(<<
        "I", "'", "m", " ", "h", "e", "r", "e", " ", "t", "o", " ", "h", "e", "l", "p", "!", " ",
        "I", " ", "c", "a", "n", " ", "a", "s", "s", "i", "s", "t", " ", "y", "o", "u", " ", "w",
        "i", "t", "h", " ", "v", "a", "r", "i", "o", "u", "s", " ", "t", "a", "s", "k", "s", " ",
        "i", "n", "c", "l", "u", "d", "i", "n", "g", " ", "t", "e", "x", "t", " ", "g", "e", "n",
        "e", "r", "a", "t", "i", "o", "n", ",", " ", "c", "o", "d", "e", " ", "c", "r", "e", "a",
        "t", "i", "o", "n", ",", " ", "i", "m", "a", "g", "e", " ", "g", "e", "n", "e", "r", "a",
        "t", "i", "o", "n", ",", " ", "a", "n", "d", " ", "m", "o", "r", "e", ".", " ", "W", "h",
        "a", "t", " ", "w", "o", "u", "l", "d", " ", "y", "o", "u", " ", "l", "i", "k", "e", " ",
        "t", "o", " ", "w", "o", "r", "k", " ", "o", "n", "?" >>)

DeletedPlaceholder == Str(<<"[", "M", "e", "s", "s", "a", "g", "e", " ", "d", "e", "l", "e", "t", "e", "d", "]">>)

(***************************************************************************)
(* Bounds and inputs.                                                      *)
(***************************************************************************)
MaxConvs == 2
MaxTags == 3
MaxChat == 3
MaxClock == 2
MaxMsgs == 4
NumTurns == 2

Users == {"u1", "u2"}
\* "u9" is the id of no user.
UserIds == Users \cup {"u9"}
Turns == 1..NumTurns
\* The invocation that serves the requests of a server handling one at a time.
SeqTurns == {1}
ConvIds == 1..MaxConvs
MsgIds == 1..MaxMsgs

Msg_hi == Str(<<"h", "i">>)
Msg_leading == Str(<<" ", "h", "i">>)
Msg_long == Rep("a", 60)
Msg_image == Str(<<"G", "e", "n", "e", "r", "a", "t", "e", " ", "a", "n", " ", "i", "m", "a", "g", "e">>)
Msg_code == Str(<<"w", "r", "i", "t", "e", " ", "c", "o", "d", "e">>)
Msg_search == Str(<<"f", "i", "n", "d", " ", "x">>)
Msg_voice == Str(<<"s", "p", "e", "a", "k">>)
Msg_document == Str(<<"a", "n", "a", "l", "y", "z", "e", " ", "f", "i", "l", "e">>)
Msg_over500 == Rep("b", 501)
Msg_empty == <<>>
Msg_over10000 == Rep("c", 10001)

Messages ==
    {Msg_hi, Msg_leading, Msg_long, Msg_image, Msg_code, Msg_search, Msg_voice,
     Msg_document, Msg_over500, Msg_empty, Msg_over10000}

\* What a provider may answer.
Reply_ok == Str(<<"o", "k">>)
Reply_over500 == Rep("r", 501)
Replies == {Reply_ok, Reply_over500}

(***************************************************************************)
(* State.                                                                  *)
(*   users       the User collection: id -> usage counters                 *)
(*   convs       the Conversation collection: id -> document               *)
(*   msgs        the Message collection: id -> document (ids in insertion  *)
(*               order)                                                    *)
(*   pendingInc  per conversation, the $inc updates of messageCount that   *)
(*               Message's pre-save hook has issued without awaiting them  *)
(*   nextConvId, nextMsgId   the next fresh document ids                   *)
(*   turn        per handleMessage invocation: its position, arguments and *)
(*               locals, and the collections as they were when it began    *)
(*   call        the invocation of another controller or model operation   *)
(*   arg, res    argument and result of a stand-alone analyzeIntent call   *)
(***************************************************************************)
VARIABLES users, convs, msgs, pendingInc, nextConvId, nextMsgId, turn, call, arg, res, chat

vars == <<users, convs, msgs, pendingInc, nextConvId, nextMsgId, turn, call, arg, res, chat>>
store == <<users, convs, msgs, pendingInc, nextConvId, nextMsgId>>

NoConversation == [id |-> NoId, title |-> undefined]
NoIntent == [type |-> "", confidence |-> 0]
NoResponse == [content |-> undefined]
NoSnapshot == [convs |-> <<>>, msgs |-> <<>>, pendingInc |-> <<>>, users |-> <<>>]

\* The collections as an operation finds them when it begins.
Snapshot == [convs |-> convs, msgs |-> msgs, pendingInc |-> pendingInc, users |-> users]

IdleTurn ==
    [pc |-> "idle", userId |-> "", message |-> <<>>, conversationId |-> NoId,
     messageType |-> "text", conversation |-> NoConversation, lastMessage |-> undefined,
     userMessage |-> NoId,
     history |-> <<>>, intent |-> NoIntent, route |-> "", primary |-> "", fallback |-> "",
     prompt |-> <<>>, textResult |-> NoResponse, aiResponse |-> NoResponse, aiMessage |-> NoId,
     response |-> NoResponse, error |-> "", snapshot |-> NoSnapshot]

\* The chat page before anything is sent: no message shown, nothing being sent.
\* now is the reading of the browser's clock.
NoChat == [messages |-> <<>>, sending |-> FALSE, now |-> 0]

IdleCall ==
    [pc |-> "idle", op |-> "", userId |-> "", conversationId |-> NoId, messageId |-> NoId,
     reactionType |-> "", newContent |-> <<>>, username |-> "", attachment |-> "",
     audioData |-> "", transcribedText |-> <<>>, permission |-> "", tag |-> <<>>, result |-> [success |-> FALSE], error |-> "", snapshot |-> NoSnapshot]

Init ==
    /\ users = [u \in Users |-> [messagesSent |-> 0, imagesGenerated |-> 0, codeGenerated |-> 0]]
    /\ convs = <<>>
    /\ msgs = <<>>
    /\ pendingInc = [c \in ConvIds |-> 0]
    /\ nextConvId = 1
    /\ nextMsgId = 1
    /\ turn = [t \in Turns |-> IdleTurn]
    /\ call = IdleCall
    /\ arg = <<>>
    /\ res = NoIntent
    /\ chat = NoChat

(***************************************************************************)
(* Collection operations.                                                  *)
(***************************************************************************)
\* document.save() of a new document: the document is inserted under its id.
InsertDoc(coll, id, doc) == coll @@ (id :> doc)

\* The elements of a finite set of numbers, ascending.
RECURSIVE Ascending(_)
Ascending(S) ==
    IF S = {} THEN <<>>
    ELSE LET lo == CHOOSE x \in S : \A y \in S : x <= y
         IN  <<lo>> \o Ascending(S \ {lo})

\* FoundAndOwned without the comparison of the owner with the requester.
FoundWhoeverOwns(cs, conversationId, userId) == conversationId \in DOMAIN cs

\* Conversation.findById(id) found its document and the requester owns it.
FoundAndOwned(cs, conversationId, userId) ==
    conversationId \in DOMAIN cs /\ cs[conversationId].userId = userId

\* FindOneConversation with a filter that leaves userId out.
FindOneOfAnyUser(cs, conversationId, userId) == {c \in DOMAIN cs : c = conversationId}

\* Conversation.findOne({ _id, userId }) / findOneAndDelete({ _id, userId }): the ids matched.
FindOneConversation(cs, conversationId, userId) ==
    {c \in DOMAIN cs : c = conversationId /\ cs[c].userId = userId}

\* DeleteMany that deletes nothing: the cascade left out.
DeleteNoMessage(ms, conversationId) == ms

\* Message.deleteMany({ conversationId })
DeleteMany(ms, conversationId) ==
    [m \in {x \in DOMAIN ms : ms[x].conversationId # conversationId} |-> ms[m]]

\* Message.find(filter).sort({ timestamp: dir }): ids of the documents of ms that the
\* filter selects (matching).  timestamp is no path of the schema, so no document stores one and the sort
\* key is the same for all; the documents come in insertion order whatever dir is.
FindSorted(ms, matching) == Ascending({m \in DOMAIN ms : m \in matching})

\* Query.limit(n)
Limit(ids, n) == SubSeq(ids, 1, IF Len(ids) < n THEN Len(ids) ELSE n)

\* Query.select(paths): the documents of ids, each with its _id and the paths named.
Select(ms, ids, paths) ==
    [i \in 1..Len(ids) |->
        Spread([id |-> ids[i]], [k \in paths \cap DOMAIN ms[ids[i]] |-> ms[ids[i]][k]])]

(***************************************************************************)
(* ChatController.handleMessage, one action per awaited step.              *)
(***************************************************************************)
\* TitleOf without the ellipsis marker.
TitleWithoutEllipsis(message) == substring(message, 0, TitleChars)

\* The title handleMessage gives a conversation it creates.
TitleOf(message) == Concat(substring(message, 0, TitleChars), Ellipsis)

\* Throw that hands the caller what the turn has so far in place of the error alone.
ThrowWithPartialResult(t, error) ==
    turn' = [turn EXCEPT ![t].pc = "failed", ![t].error = error,
                         ![t].response = [conversationId |-> turn[t].conversation.id,
                                          userMessage |-> [id |-> turn[t].userMessage]]]

\* throw: the turn ends with the error.
Throw(t, error) == turn' = [turn EXCEPT ![t].pc = "failed", ![t].error = error]

\* handleMessage at its first await, with the data it was called with.
NewTurn(userId, message, conversationId, messageType) ==
    [IdleTurn EXCEPT !.pc = "findUser", !.userId = userId, !.message = message,
                     !.conversationId = conversationId,
                     !.messageType = messageType, !.snapshot = Snapshot]

\* A call of handleMessage(socket, { userId, message, conversationId, messageType }).
handleMessage(t, userId, message, conversationId, messageType) ==
    /\ turn[t].pc = "idle"
    /\ conversationId = NoId => nextConvId <= MaxConvs
    /\ turn' = [turn EXCEPT ![t] = NewTurn(userId, message, conversationId, messageType)]
    /\ UNCHANGED <<store, call, arg, res, chat>>

\* const user = await User.findById(userId)
FindUser(t) ==
    /\ turn[t].pc = "findUser"
    /\ IF turn[t].userId \in DOMAIN users
       THEN turn' = [turn EXCEPT ![t].pc = "getConversation"]
       ELSE Throw(t, "User not found")
    /\ UNCHANGED <<store, call, arg, res, chat>>

\* if (conversationId) findById and check the owner, else create the conversation
GetConversation(t) ==
    /\ turn[t].pc = "getConversation"
    /\ LET T == turn[t]
       IN  IF T.conversationId # NoId
           THEN /\ IF FoundAndOwned(convs, T.conversationId, T.userId)
                   THEN turn' = [turn EXCEPT ![t].pc = "saveUserMessage",
                                    ![t].conversation = [id |-> T.conversationId,
                                                          title |-> convs[T.conversationId].title],
                                    ![t].lastMessage = convs[T.conversationId].lastMessage]
                   ELSE Throw(t, "Conversation not found or access denied")
                /\ UNCHANGED store
           ELSE LET doc == NewConversation(T.userId, TitleOf(T.message))
                IN  IF ValidTitle(doc.title)
                    THEN /\ convs' = InsertDoc(convs, nextConvId, doc)
                         /\ nextConvId' = nextConvId + 1
                         /\ turn' = [turn EXCEPT ![t].pc = "saveUserMessage",
                                        ![t].conversation = [id |-> nextConvId, title |-> doc.title],
                                        ![t].lastMessage = doc.lastMessage]
                         /\ UNCHANGED <<users, msgs, pendingInc, nextMsgId>>
                    ELSE /\ Throw(t, "Conversation validation failed")
                         /\ UNCHANGED store
    /\ UNCHANGED <<call, arg, res, chat>>

\* PreSave with the $inc sent to a fixed conversation, not to the message's own.
PreSaveFirstConversation(pending, conversationId) == [pending EXCEPT ![1] = @ + 1]

\* Message's pre('save') hook: a $inc of the conversation's messageCount is issued for
\* a new document and not awaited.
PreSave(pending, conversationId) ==
    [pending EXCEPT ![conversationId] = @ + 1]

\* SaveMessage with the save not awaited: the turn goes on before the insert is made.
SaveMessageNotAwaited(t, doc, field, nextPc) ==
    IF ValidMessage(doc)
    THEN /\ nextMsgId' = nextMsgId + 1
         /\ pendingInc' = [pendingInc EXCEPT ![doc.conversationId] = @ + 1]
         /\ turn' = [turn EXCEPT ![t].pc = nextPc, ![t][field] = nextMsgId]
         /\ UNCHANGED <<users, convs, msgs, nextConvId>>
    ELSE /\ turn' = [turn EXCEPT ![t].pc = "failed", ![t].error = "Message validation failed"]
         /\ UNCHANGED store

\* await new Message(...).save(): validation, then the pre-save hook, then the insert.
SaveMessage(t, doc, field, nextPc) ==
    IF ValidMessage(doc)
    THEN /\ msgs' = InsertDoc(msgs, nextMsgId, doc)
         /\ nextMsgId' = nextMsgId + 1
         /\ pendingInc' = PreSave(pendingInc, doc.conversationId)
         /\ turn' = [turn EXCEPT ![t].pc = nextPc, ![t][field] = nextMsgId]
         /\ UNCHANGED <<users, convs, nextConvId>>
    ELSE /\ Throw(t, "Message validation failed")
         /\ UNCHANGED store

\* const userMessage = new Message({ ..., sender: 'user', content: message }); save
SaveUserMessage(t) ==
    /\ turn[t].pc = "saveUserMessage"
    /\ SaveMessage(t, NewMessage(turn[t].conversation.id, "user", turn[t].message,
                                 turn[t].messageType, <<>>),
                   "userMessage", "updateConversation")
    /\ UNCHANGED <<call, arg, res, chat>>

\* conversation.lastMessage = text; conversation.updatedAt = new Date(); save.
\* save() validates the document, then writes its modified paths to the stored
\* document, and fails when there is no stored document any more.  The turn holds the
\* document as it loaded and last assigned it: a path assigned the value the document
\* already has is not modified and is not written, whatever the stored document has
\* become meanwhile; updatedAt is always modified.
SaveLastMessage(t, text, nextPc) ==
    LET c == turn[t].conversation.id
        lastMessage == trim(text)
        modified == lastMessage # turn[t].lastMessage
    IN  IF ~ValidLastMessage(lastMessage)
        THEN /\ Throw(t, "Conversation validation failed")
             /\ UNCHANGED store
        ELSE IF c \notin DOMAIN convs
        THEN /\ Throw(t, "Document not found")
             /\ UNCHANGED store
        ELSE /\ convs' = IF modified THEN [convs EXCEPT ![c].lastMessage = lastMessage] ELSE convs
             /\ turn' = [turn EXCEPT ![t].pc = nextPc, ![t].lastMessage = lastMessage]
             /\ UNCHANGED <<users, msgs, pendingInc, nextConvId, nextMsgId>>

UpdateConversation(t) ==
    /\ turn[t].pc = "updateConversation"
    /\ SaveLastMessage(t, turn[t].message, "generateAIResponse")
    /\ UNCHANGED <<call, arg, res, chat>>

(***************************************************************************)
(* ChatController.generateAIResponse and the AIService methods it routes   *)
(* to.  Every route begins with a call of the primary provider (OpenAI);   *)
(* the text path falls back to Gemini, then to a fixed text.               *)
(***************************************************************************)
\* new Date().toISOString(): time is not modelled.
Now == "now"

\* The routes whose AIService method goes through generateTextResponse.
TextRoutes == {"text_response", "web_search", "document_analysis", "voice_command"}

\* A text result that names OpenAI whichever call produced the content.
TextResultNamingOpenAI(content, model, provider) ==
    [content |-> content, type |-> "text", metadata |-> [model |-> "gpt-4", provider |-> "openai"]]

\* What generateTextResponse / generateWithGemini return.
TextResult(content, model, provider) ==
    [content |-> content, type |-> "text", metadata |-> [model |-> model, provider |-> provider]]

\* What the AIService method of the route returns, given the text result (for the text
\* routes) or the provider's answer (generateImage, generateCode).
ServiceResult(route, message, r) ==
    CASE route = "image_generation" ->
           [content |-> r.content, type |-> "image",
            metadata |-> [model |-> "dall-e-3", provider |-> "openai", prompt |-> message]]
      [] route = "code_generation" ->
           [content |-> r.content, type |-> "code",
            metadata |-> [model |-> "gpt-4", provider |-> "openai",
                          language |-> detectLanguage(r.content)]]
      [] route = "web_search" ->
           [content |-> r.content, type |-> "search_result",
            metadata |-> [query |-> message, source |-> "web_search", timestamp |-> Now]]
      [] route = "document_analysis" ->
           [content |-> r.content, type |-> "document_analysis",
            metadata |-> [documentLength |-> length(message),
                          analysisType |-> "comprehensive", timestamp |-> Now]]
      [] route = "voice_command" ->
           [content |-> r.content, type |-> "voice_command",
            metadata |-> [originalCommand |-> message, processed |-> TRUE]]
      [] OTHER -> r

\* The value generateAIResponse returns when its try block completes.
AIResponse(intent, response) ==
    [content |-> response.content,
     type |-> IF response.type = "" THEN "text" ELSE response.type,
     metadata |-> Spread([intent |-> intent.type, confidence |-> intent.confidence],
                         response.metadata)]

\* The value generateAIResponse returns from its catch block.
ErrorResponse == [content |-> ApologyText, type |-> "text", metadata |-> [error |-> TRUE]]

\* Message.find({ conversationId }).sort({ timestamp: 1 }).limit(10)
\*        .select('content sender messageType')
ContextFetch(ms, conversationId) ==
    LET inConversation(doc) == doc.conversationId = conversationId
    IN  Select(ms, Limit(FindSorted(ms, {m \in DOMAIN ms : inConversation(ms[m])}), HistoryLimit),
               {"content", "sender", "messageType"})

\* The system entry that opens every chat-completion request.
SystemPrompt ==
    Str(<<"Y", "o", "u", " ", "a", "r", "e", " ", "R", "A", "I", " ", "(", "R", "e", "v", "o",
          "l", "u", "t", "i", "o", "n", "a", "r", "y", " ", "A", "I", " ", "A", "s", "s", "i",
          "s", "t", "a", "n", "t", ")", ",", " ", "a", " ", "c", "o", "m", "p", "r", "e", "h",
          "e", "n", "s", "i", "v", "e", " ", "A", "I", " ", "t", "h", "a", "t", " ", "c", "o",
          "m", "b", "i", "n", "e", "s", " ", "t", "h", "e", " ", "b", "e", "s", "t", " ", "f",
          "e", "a", "t", "u", "r", "e", "s", " ", "f", "r", "o", "m", " ", "G", "e", "m", "i",
          "n", "i", ",", " ", "S", "i", "r", "i", ",", " ", "C", "h", "a", "t", "G", "P", "T",
          ",", " ", "a", "n", "d", " ", "o", "t", "h", "e", "r", " ", "l", "e", "a", "d", "i",
          "n", "g", " ", "A", "I", " ", "p", "l", "a", "t", "f", "o", "r", "m", "s", ".", " ",
          "Y", "o", "u", " ", "a", "r", "e", " ", "h", "e", "l", "p", "f", "u", "l", ",", " ",
          "c", "r", "e", "a", "t", "i", "v", "e", ",", " ", "a", "n", "d", " ", "c", "a", "n",
          " ", "a", "s", "s", "i", "s", "t", " ", "w", "i", "t", "h", " ", "a", "n", "y", " ",
          "t", "a", "s", "k", ".", " ", "Y", "o", "u", " ", "h", "a", "v", "e", " ", "a", "c",
          "c", "e", "s", "s", " ", "t", "o", " ", "r", "e", "a", "l", "-", "t", "i", "m", "e",
          " ", "i", "n", "f", "o", "r", "m", "a", "t", "i", "o", "n", ",", " ", "c", "a", "n",
          " ", "g", "e", "n", "e", "r", "a", "t", "e", " ", "c", "o", "d", "e", ",", " ", "c",
          "r", "e", "a", "t", "e", " ", "i", "m", "a", "g", "e", "s", ",", " ", "a", "n", "d",
          " ", "m", "u", "c", "h", " ", "m", "o", "r", "e", ".", " ", "A", "l", "w", "a", "y",
          "s", " ", "b", "e", " ", "f", "r", "i", "e", "n", "d", "l", "y", " ", "a", "n", "d",
          " ", "p", "r", "o", "f", "e", "s", "s", "i", "o", "n", "a", "l", ".">>)

\* The template strings of webSearch, processVoiceCommand and analyzeDocument.
SearchPromptHead ==
    Str(<<"S", "e", "a", "r", "c", "h", " ", "f", "o", "r", " ", "t", "h", "e", " ", "l", "a",
          "t", "e", "s", "t", " ", "i", "n", "f", "o", "r", "m", "a", "t", "i", "o", "n", " ",
          "a", "b", "o", "u", "t", ":", " ">>)
SearchPromptTail ==
    Str(<<".", " ", "P", "r", "o", "v", "i", "d", "e", " ", "c", "u", "r", "r", "e", "n", "t",
          " ", "a", "n", "d", " ", "a", "c", "c", "u", "r", "a", "t", "e", " ", "i", "n", "f",
          "o", "r", "m", "a", "t", "i", "o", "n", ".">>)
VoicePromptHead ==
    Str(<<"P", "r", "o", "c", "e", "s", "s", " ", "t", "h", "i", "s", " ", "v", "o", "i", "c",
          "e", " ", "c", "o", "m", "m", "a", "n", "d", ":", " ">>)
VoicePromptTail ==
    Str(<<".", " ", "P", "r", "o", "v", "i", "d", "e", " ", "a", " ", "h", "e", "l", "p", "f",
          "u", "l", " ", "r", "e", "s", "p", "o", "n", "s", "e", " ", "a", "n", "d", " ", "s",
          "u", "g", "g", "e", "s", "t", " ", "a", "n", "y", " ", "a", "c", "t", "i", "o", "n",
          "s", " ", "t", "h", "a", "t", " ", "c", "o", "u", "l", "d", " ", "b", "e", " ", "t",
          "a", "k", "e", "n", ".">>)
AnalysisPromptHead ==
    Str(<<"A", "n", "a", "l", "y", "z", "e", " ", "t", "h", "e", " ", "f", "o", "l", "l", "o",
          "w", "i", "n", "g", " ", "d", "o", "c", "u", "m", "e", "n", "t", " ", "a", "n", "d",
          " ", "p", "r", "o", "v", "i", "d", "e", " ", "a", " ", "c", "o", "m", "p", "r", "e",
          "h", "e", "n", "s", "i", "v", "e", " ", "s", "u", "m", "m", "a", "r", "y", " ", "w",
          "i", "t", "h", " ", "k", "e", "y", " ", "i", "n", "s", "i", "g", "h", "t", "s", ":",
          " ">>)

\* The message and the history that the AIService method of the route hands to
\* generateTextResponse: generateAIResponse passes its history to generateTextResponse
\* only, the other methods pass a prompt built from the message and no history.
TextRequest(route, message, history) ==
    CASE route = "web_search" ->
           [message |-> Concat(SearchPromptHead, Concat(message, SearchPromptTail)),
            history |-> <<>>]
      [] route = "voice_command" ->
           [message |-> Concat(VoicePromptHead, Concat(message, VoicePromptTail)),
            history |-> <<>>]
      [] route = "document_analysis" ->
           [message |-> Concat(AnalysisPromptHead, message), history |-> <<>>]
      [] OTHER -> [message |-> message, history |-> history]

\* The messages array that generateTextResponse sends to the chat-completion call.
ChatMessages(message, history) ==
    <<[role |-> "system", content |-> SystemPrompt]>>
    \o [i \in 1..Len(history) |->
           [role |-> IF history[i].sender = "user" THEN "user" ELSE "assistant",
            content |-> history[i].content]]
    \o <<[role |-> "user", content |-> message]>>

\* generateAIResponse up to the first provider call: history, intent, routing, and on
\* the text routes the messages array of the request.
GenerateAIResponse(t) ==
    /\ turn[t].pc = "generateAIResponse"
    /\ LET history == ContextFetch(msgs, turn[t].conversation.id)
           intent == analyzeIntent(turn[t].message)
           request == TextRequest(intent.type, turn[t].message, history)
       IN  turn' = [turn EXCEPT ![t].pc = "openai",
                               ![t].history = history,
                               ![t].intent = intent,
                               ![t].route = intent.type,
                               ![t].prompt = IF intent.type \in TextRoutes
                                             THEN ChatMessages(request.message, request.history)
                                             ELSE <<>>,
                               ![t].primary = "called"]
    /\ UNCHANGED <<store, call, arg, res, chat>>

\* The OpenAI call answers with reply.
OpenAIReturns(t, reply) ==
    /\ turn[t].pc = "openai"
    /\ LET T == turn[t]
           r == TextResult(reply, "gpt-4", "openai")
       IN  turn' = [turn EXCEPT ![t].pc = "saveAiMessage", ![t].primary = "ok",
                       ![t].textResult = IF T.route \in TextRoutes THEN r ELSE NoResponse,
                       ![t].aiResponse = AIResponse(T.intent, ServiceResult(T.route, T.message, r))]
    /\ UNCHANGED <<store, call, arg, res, chat>>

\* The OpenAI call fails: the text path goes on to Gemini, generateImage and
\* generateCode rethrow and generateAIResponse answers from its catch block.
OpenAIFails(t) ==
    /\ turn[t].pc = "openai"
    /\ IF turn[t].route \in TextRoutes
       THEN turn' = [turn EXCEPT ![t].pc = "gemini", ![t].primary = "failed",
                                 ![t].fallback = "called"]
       ELSE turn' = [turn EXCEPT ![t].pc = "saveAiMessage", ![t].primary = "failed",
                                 ![t].aiResponse = ErrorResponse]
    /\ UNCHANGED <<store, call, arg, res, chat>>

\* The Gemini call answers with reply.
GeminiReturns(t, reply) ==
    /\ turn[t].pc = "gemini"
    /\ LET T == turn[t]
           r == TextResult(reply, "gemini-pro", "google")
       IN  turn' = [turn EXCEPT ![t].pc = "saveAiMessage", ![t].fallback = "ok",
                       ![t].textResult = r,
                       ![t].aiResponse = AIResponse(T.intent, ServiceResult(T.route, T.message, r))]
    /\ UNCHANGED <<store, call, arg, res, chat>>

\* The Gemini call fails: generateWithGemini answers with its fixed text.
GeminiFails(t) ==
    /\ turn[t].pc = "gemini"
    /\ LET T == turn[t]
           r == TextResult(FallbackText, "fallback", "rai")
       IN  turn' = [turn EXCEPT ![t].pc = "saveAiMessage", ![t].fallback = "failed",
                       ![t].textResult = r,
                       ![t].aiResponse = AIResponse(T.intent, ServiceResult(T.route, T.message, r))]
    /\ UNCHANGED <<store, call, arg, res, chat>>

\* const aiMessage = new Message({ ..., sender: 'ai', content: aiResponse.content }); save
SaveAiMessage(t) ==
    /\ turn[t].pc = "saveAiMessage"
    /\ LET r == turn[t].aiResponse
       IN  SaveMessage(t, NewMessage(turn[t].conversation.id, "ai", r.content, r.type, r.metadata),
                       "aiMessage", "updateConversationAi")
    /\ UNCHANGED <<call, arg, res, chat>>

UpdateConversationAi(t) ==
    /\ turn[t].pc = "updateConversationAi"
    /\ SaveLastMessage(t, turn[t].aiResponse.content, "respond")
    /\ UNCHANGED <<call, arg, res, chat>>

\* return response
Respond(t) ==
    /\ turn[t].pc = "respond"
    /\ LET T == turn[t]
       IN  turn' = [turn EXCEPT ![t].pc = "done",
                       ![t].response =
                          [conversationId |-> T.conversation.id,
                           userMessage |-> [id |-> T.userMessage, content |-> T.message,
                                            type |-> T.messageType],
                           aiMessage |-> [id |-> T.aiMessage, content |-> T.aiResponse.content,
                                          type |-> T.aiResponse.type,
                                          metadata |-> T.aiResponse.metadata],
                           conversation |-> [id |-> T.conversation.id,
                                             title |-> T.conversation.title]]]
    /\ UNCHANGED <<store, call, arg, res, chat>>

\* The caller has taken the turn's result or its exception.
Settle(t) ==
    /\ turn[t].pc \in {"done", "failed"}
    /\ turn' = [turn EXCEPT ![t] = IdleTurn]
    /\ UNCHANGED <<store, call, arg, res, chat>>

\* A $inc issued by the pre-save hook reaches the database; findByIdAndUpdate
\* changes nothing when the conversation is gone.
ApplyIncrement(c) ==
    /\ pendingInc[c] > 0
    /\ pendingInc' = [pendingInc EXCEPT ![c] = @ - 1]
    /\ convs' = IF c \in DOMAIN convs
                THEN [convs EXCEPT ![c].messageCount = @ + 1]
                ELSE convs
    /\ UNCHANGED <<users, msgs, nextConvId, nextMsgId, turn, call, arg, res, chat>>

(***************************************************************************)
(* Message methods and statics (server/models/message.js).                 *)
(***************************************************************************)
\* messageSchema.methods.getSummary, of the document doc stored under id
getSummary(id, doc) ==
    [id |-> id, sender |-> doc.sender,
     content |-> IF doc.isDeleted THEN DeletedPlaceholder ELSE doc.content,
     messageType |-> doc.messageType, isDeleted |-> doc.isDeleted,
     reactions |-> doc.metadata.reactions, mentions |-> doc.metadata.mentions]

\* messageSchema.statics.findByConversation(conversationId), default options
findByConversation(ms, conversationId) ==
    LET keep(doc) == doc.conversationId = conversationId /\ doc.isDeleted = FALSE
        ids == Limit(FindSorted(ms, {m \in DOMAIN ms : keep(ms[m])}), FindByConversationLimit)
    IN  [i \in 1..Len(ids) |-> Spread([id |-> ids[i]], ms[ids[i]])]

\* messageSchema.statics.search(conversationId, searchTerm), searchTerm a plain word:
\* { content: { $regex: searchTerm, $options: 'i' } } is a case-blind substring test.
search(ms, conversationId, searchTerm) ==
    LET keep(doc) == /\ doc.conversationId = conversationId
                     /\ doc.isDeleted = FALSE
                     /\ includes(toLowerCase(doc.content), toLowerCase(searchTerm))
        ids == FindSorted(ms, {m \in DOMAIN ms : keep(ms[m])})
    IN  [i \in 1..Len(ids) |-> Spread([id |-> ids[i]], ms[ids[i]])]

\* messageSchema.statics.findByType(conversationId, messageType)
findByType(ms, conversationId, messageType) ==
    LET keep(doc) == /\ doc.conversationId = conversationId
                     /\ doc.messageType = messageType
                     /\ doc.isDeleted = FALSE
        ids == FindSorted(ms, {m \in DOMAIN ms : keep(ms[m])})
    IN  [i \in 1..Len(ids) |-> Spread([id |-> ids[i]], ms[ids[i]])]

\* SoftDeleted that also puts the deletion placeholder in place of the content.
SoftDeletedBlanking(doc, userId) ==
    [doc EXCEPT !.isDeleted = TRUE, !.deletedAt = Now, !.deletedBy = userId,
                !.content = DeletedPlaceholder]

\* The document after messageSchema.methods.softDelete(userId)
SoftDeleted(doc, userId) ==
    [doc EXCEPT !.isDeleted = TRUE, !.deletedAt = Now, !.deletedBy = userId]

\* The document after messageSchema.methods.restore()
Restored(doc) == [doc EXCEPT !.isDeleted = FALSE, !.deletedAt = "", !.deletedBy = ""]

\* message.softDelete(userId) on the stored message m.  save() of a document that
\* is not new runs the pre-save hook without issuing a $inc.
softDelete(m, userId) ==
    /\ call.pc = "idle"
    /\ m \in DOMAIN msgs
    /\ msgs' = [msgs EXCEPT ![m] = SoftDeleted(@, userId)]
    /\ call' = [IdleCall EXCEPT !.pc = "done", !.op = "softDelete", !.userId = userId,
                                !.messageId = m, !.snapshot = Snapshot]
    /\ UNCHANGED <<users, convs, pendingInc, nextConvId, nextMsgId, turn, arg, res, chat>>

\* message.restore() on the stored message m
restore(m) ==
    /\ call.pc = "idle"
    /\ m \in DOMAIN msgs
    /\ msgs' = [msgs EXCEPT ![m] = Restored(@)]
    /\ call' = [IdleCall EXCEPT !.pc = "done", !.op = "restore", !.messageId = m,
                                !.snapshot = Snapshot]
    /\ UNCHANGED <<users, convs, pendingInc, nextConvId, nextMsgId, turn, arg, res, chat>>

\* this.save() of the message document doc loaded from m, after a method changed it:
\* validation, then the write; a rejected save leaves the stored document as it was.
SaveLoaded(m, doc, record) ==
    IF ValidMessage(doc)
    THEN /\ msgs' = [msgs EXCEPT ![m] = doc]
         /\ call' = [record EXCEPT !.pc = "done", !.messageId = m, !.snapshot = Snapshot]
    ELSE /\ msgs' = msgs
         /\ call' = [record EXCEPT !.pc = "failed", !.messageId = m, !.snapshot = Snapshot,
                                   !.error = "Message validation failed"]

\* The reactions without those of userId: reactions.filter(r => r.userId !== userId)
RemovedReaction(reactions, userId) == SelectSeq(reactions, LAMBDA r : r.userId # userId)

\* AddedReaction without the filter that removes the user's earlier reaction.
AddedReactionUnfiltered(reactions, userId, reactionType) ==
    Append(reactions, [userId |-> userId, type |-> reactionType, timestamp |-> Now])

\* The reactions after addReaction: the user's earlier reaction filtered out, the new
\* one pushed.
AddedReaction(reactions, userId, reactionType) ==
    Append(RemovedReaction(reactions, userId),
           [userId |-> userId, type |-> reactionType, timestamp |-> Now])

\* message.addReaction(userId, reactionType) on the stored message m
addReaction(m, userId, reactionType) ==
    /\ call.pc = "idle"
    /\ m \in DOMAIN msgs
    /\ SaveLoaded(m, [msgs[m] EXCEPT !.metadata.reactions =
                                        AddedReaction(@, userId, reactionType)],
                  [IdleCall EXCEPT !.op = "addReaction", !.userId = userId,
                                   !.reactionType = reactionType])
    /\ UNCHANGED <<users, convs, pendingInc, nextConvId, nextMsgId, turn, arg, res, chat>>

\* message.removeReaction(userId) on the stored message m
removeReaction(m, userId) ==
    /\ call.pc = "idle"
    /\ m \in DOMAIN msgs
    /\ SaveLoaded(m, [msgs[m] EXCEPT !.metadata.reactions = RemovedReaction(@, userId)],
                  [IdleCall EXCEPT !.op = "removeReaction", !.userId = userId])
    /\ UNCHANGED <<users, convs, pendingInc, nextConvId, nextMsgId, turn, arg, res, chat>>

\* Edited with the history entry left out: the prior content is lost.
EditedWithoutHistory(doc, newContent) ==
    [doc EXCEPT !.content = newContent, !.metadata.isEdited = TRUE]

\* The document after messageSchema.methods.edit(newContent), before the save
Edited(doc, newContent) ==
    [doc EXCEPT !.metadata.editHistory = Append(@, [content |-> doc.content, editedAt |-> Now]),
                !.content = newContent,
                !.metadata.isEdited = TRUE]

\* message.edit(newContent) on the stored message m
edit(m, newContent) ==
    /\ call.pc = "idle"
    /\ m \in DOMAIN msgs
    /\ SaveLoaded(m, Edited(msgs[m], newContent),
                  [IdleCall EXCEPT !.op = "edit", !.newContent = newContent])
    /\ UNCHANGED <<users, convs, pendingInc, nextConvId, nextMsgId, turn, arg, res, chat>>

\* The mentions after addMention(userId, username): pushed unless the user is there.
AddedMention(mentions, userId, username) ==
    IF \E i \in 1..Len(mentions) : mentions[i].userId = userId
    THEN mentions
    ELSE Append(mentions, [userId |-> userId, username |-> username])

\* message.addMention(userId, username) on the stored message m
addMention(m, userId, username) ==
    /\ call.pc = "idle"
    /\ m \in DOMAIN msgs
    /\ SaveLoaded(m, [msgs[m] EXCEPT !.metadata.mentions = AddedMention(@, userId, username)],
                  [IdleCall EXCEPT !.op = "addMention", !.userId = userId,
                                   !.username = username])
    /\ UNCHANGED <<users, convs, pendingInc, nextConvId, nextMsgId, turn, arg, res, chat>>

\* message.addAttachment(attachment) on the stored message m.  The schema declares
\* attachments as [{ type: String, url: String, ... }]: the key type makes it an
\* array of strings, so the push casts attachment to a string.
addAttachment(m, attachment) ==
    /\ call.pc = "idle"
    /\ m \in DOMAIN msgs
    /\ SaveLoaded(m, [msgs[m] EXCEPT !.metadata.attachments = Append(@, attachment)],
                  [IdleCall EXCEPT !.op = "addAttachment", !.attachment = attachment])
    /\ UNCHANGED <<users, convs, pendingInc, nextConvId, nextMsgId, turn, arg, res, chat>>

(***************************************************************************)
(* Conversation methods (server/models/conversation.js).                   *)
(***************************************************************************)
\* PermissionLevel that ranks every permission alike.
PermissionLevelFlat(permission) == 0

\* permissions.indexOf(permission), from 0, -1 when it is none of them
PermissionLevel(permission) ==
    CASE permission = "read" -> 0
      [] permission = "write" -> 1
      [] permission = "admin" -> 2
      [] OTHER -> -1

\* conversationSchema.methods.hasAccess(userId, requiredPermission) on the document conv
hasAccess(conv, userId, requiredPermission) ==
    IF conv.userId = userId THEN TRUE
    ELSE IF ~\E i \in 1..Len(conv.sharedWith) : conv.sharedWith[i].userId = userId
    THEN FALSE
    ELSE LET share == conv.sharedWith[CHOOSE i \in 1..Len(conv.sharedWith) :
                                         /\ conv.sharedWith[i].userId = userId
                                         /\ \A j \in 1..(i - 1) :
                                                conv.sharedWith[j].userId # userId]
         IN  PermissionLevel(share.permission) >= PermissionLevel(requiredPermission)

\* The sharing list after conversationSchema.methods.shareWith(userId, permission)
SharedWith(sharedWith, userId, permission) ==
    IF \E i \in 1..Len(sharedWith) : sharedWith[i].userId = userId
    THEN [i \in 1..Len(sharedWith) |->
            IF sharedWith[i].userId = userId
            THEN [sharedWith[i] EXCEPT !.permission = permission]
            ELSE sharedWith[i]]
    ELSE Append(sharedWith, [userId |-> userId, permission |-> permission])

\* conversation.shareWith(userId, permission) on the stored conversation c
shareWith(c, userId, permission) ==
    /\ call.pc = "idle"
    /\ c \in DOMAIN convs
    /\ convs' = [convs EXCEPT ![c].sharedWith = SharedWith(@, userId, permission)]
    /\ call' = [IdleCall EXCEPT !.pc = "done", !.op = "shareWith", !.userId = userId,
                                !.conversationId = c, !.snapshot = Snapshot]
    /\ UNCHANGED <<users, msgs, pendingInc, nextConvId, nextMsgId, turn, arg, res, chat>>

\* this.tags.includes(tag): the array holds a value equal to tag as it was passed.
TagsInclude(tags, tag) == \E i \in 1..Len(tags) : tags[i] = tag

\* The tags after addTag(tag): push casts the new element, which trims it.
TagAdded(tags, tag) == IF TagsInclude(tags, tag) THEN tags ELSE Append(tags, trim(tag))

\* The tags after removeTag(tag): this.tags.filter(t => t !== tag)
TagRemoved(tags, tag) ==
    LET kept(t) == t # tag
    IN  SelectSeq(tags, kept)

\* this.save() of a conversation whose tags have become tags: the list is stored when
\* every element passes its validators, and the promise rejects otherwise.
SaveTags(c, tags, record) ==
    IF ValidTags(tags)
    THEN /\ convs' = [convs EXCEPT ![c].tags = tags]
         /\ call' = [record EXCEPT !.pc = "done"]
    ELSE /\ convs' = convs
         /\ call' = [record EXCEPT !.pc = "failed", !.error = "Conversation validation failed"]

\* conversation.addTag(tag) on the stored conversation c
addTag(c, tag) ==
    /\ call.pc = "idle"
    /\ c \in DOMAIN convs
    /\ Len(convs[c].tags) < MaxTags
    /\ SaveTags(c, TagAdded(convs[c].tags, tag),
                [IdleCall EXCEPT !.op = "addTag", !.conversationId = c, !.tag = tag,
                                 !.snapshot = Snapshot])
    /\ UNCHANGED <<users, msgs, pendingInc, nextConvId, nextMsgId, turn, arg, res, chat>>

\* conversation.removeTag(tag) on the stored conversation c
removeTag(c, tag) ==
    /\ call.pc = "idle"
    /\ c \in DOMAIN convs
    /\ SaveTags(c, TagRemoved(convs[c].tags, tag),
                [IdleCall EXCEPT !.op = "removeTag", !.conversationId = c, !.tag = tag,
                                 !.snapshot = Snapshot])
    /\ UNCHANGED <<users, msgs, pendingInc, nextConvId, nextMsgId, turn, arg, res, chat>>

\* The sharing list after conversationSchema.methods.removeShare(userId)
WithoutShare(sharedWith, userId) ==
    LET kept(share) == share.userId # userId
    IN  SelectSeq(sharedWith, kept)

\* conversation.removeShare(userId) on the stored conversation c
removeShare(c, userId) ==
    /\ call.pc = "idle"
    /\ c \in DOMAIN convs
    /\ convs' = [convs EXCEPT ![c].sharedWith = WithoutShare(@, userId)]
    /\ call' = [IdleCall EXCEPT !.pc = "done", !.op = "removeShare", !.userId = userId,
                                !.conversationId = c, !.snapshot = Snapshot]
    /\ UNCHANGED <<users, msgs, pendingInc, nextConvId, nextMsgId, turn, arg, res, chat>>

\* conversation.hasAccess(userId, requiredPermission) on the stored conversation c
CheckAccess(c, userId, requiredPermission) ==
    /\ call.pc = "idle"
    /\ c \in DOMAIN convs
    /\ call' = [IdleCall EXCEPT !.pc = "done", !.op = "hasAccess", !.userId = userId,
                                !.conversationId = c, !.permission = requiredPermission,
                                !.result = [success |-> hasAccess(convs[c], userId,
                                                                  requiredPermission)],
                                !.snapshot = Snapshot]
    /\ UNCHANGED <<store, turn, arg, res, chat>>

(***************************************************************************)
(* ChatController.getConversationHistory and deleteConversation.           *)
(***************************************************************************)
\* What getConversationHistory(userId, conversationId) answers on the collections cs, ms.
ConversationHistory(cs, ms, userId, conversationId) ==
    LET inConversation(doc) == doc.conversationId = conversationId
    IN  IF FindOneConversation(cs, conversationId, userId) = {}
        THEN [error |-> "Conversation not found", messages |-> <<>>]
        ELSE [error |-> "",
              conversation |-> Spread([id |-> conversationId], cs[conversationId]),
              messages |-> Select(ms, FindSorted(ms, {m \in DOMAIN ms : inConversation(ms[m])}),
                                  {"content", "sender", "messageType", "metadata",
                                   "timestamp"})]

getConversationHistory(userId, conversationId) ==
    /\ call.pc = "idle"
    /\ LET r == ConversationHistory(convs, msgs, userId, conversationId)
       IN  call' = [IdleCall EXCEPT !.pc = IF r.error = "" THEN "done" ELSE "failed",
                                    !.op = "getConversationHistory", !.userId = userId,
                                    !.conversationId = conversationId, !.result = r,
                                    !.error = r.error, !.snapshot = Snapshot]
    /\ UNCHANGED <<store, turn, arg, res, chat>>

\* The collection without the documents whose ids are in gone.
Without(coll, gone) == [x \in (DOMAIN coll) \ gone |-> coll[x]]

\* deleteConversation(userId, conversationId), first step:
\* Conversation.findOneAndDelete({ _id: conversationId, userId })
deleteConversation(userId, conversationId) ==
    /\ call.pc = "idle"
    /\ LET found == FindOneConversation(convs, conversationId, userId)
       IN  /\ convs' = Without(convs, found)
           /\ call' = [IdleCall EXCEPT
                          !.pc = IF found = {} THEN "failed" ELSE "deleteMany",
                          !.error = IF found = {} THEN "Conversation not found" ELSE "",
                          !.op = "deleteConversation", !.userId = userId,
                          !.conversationId = conversationId, !.snapshot = Snapshot]
    /\ UNCHANGED <<users, msgs, pendingInc, nextConvId, nextMsgId, turn, arg, res, chat>>

\* deleteConversation, second step: Message.deleteMany({ conversationId }); return
DeleteMessages ==
    /\ call.pc = "deleteMany"
    /\ msgs' = DeleteMany(msgs, call.conversationId)
    /\ call' = [call EXCEPT !.pc = "done", !.result = [success |-> TRUE]]
    /\ UNCHANGED <<users, convs, pendingInc, nextConvId, nextMsgId, turn, arg, res, chat>>

\* The caller has taken the operation's result or its exception.
SettleCall ==
    /\ call.pc \in {"done", "failed"}
    /\ call' = IdleCall
    /\ UNCHANGED <<store, turn, arg, res, chat>>

(***************************************************************************)
(* ChatController.handleVoiceMessage: speechToText, then handleMessage on   *)
(* the transcript, then the audio and the transcript added to the result.  *)
(* The turn it awaits is turn 1.                                           *)
(***************************************************************************)
\* AIService.speechToText: the text it returns for every audio.
SpeechToTextPlaceholder ==
    Str(<<"S", "p", "e", "e", "c", "h", "-", "t", "o", "-", "t", "e", "x", "t", " ", "c", "o",
          "n", "v", "e", "r", "s", "i", "o", "n", " ", "w", "o", "u", "l", "d", " ", "h", "a",
          "p", "p", "e", "n", " ", "h", "e", "r", "e", ".", " ", "P", "l", "e", "a", "s", "e",
          " ", "p", "r", "o", "v", "i", "d", "e", " ", "y", "o", "u", "r", " ", "m", "e", "s",
          "s", "a", "g", "e", " ", "i", "n", " ", "t", "e", "x", "t", " ", "f", "o", "r", "m",
          "a", "t", " ", "f", "o", "r", " ", "n", "o", "w", ".">>)

speechToText(audioData) == SpeechToTextPlaceholder

VoiceTurn == 1

\* The response with the transcript only added to its user-message record.
EnrichedWithoutAudio(response, audioData, transcribedText) ==
    [response EXCEPT !.userMessage = Spread(@, [transcribedText |-> transcribedText])]

\* response.userMessage.originalAudio = audioData;
\* response.userMessage.transcribedText = transcribedText
Enriched(response, audioData, transcribedText) ==
    [response EXCEPT !.userMessage = Spread(@, [originalAudio |-> audioData,
                                                transcribedText |-> transcribedText])]

\* A call of handleVoiceMessage(socket, { userId, audioData, conversationId }), up to
\* its await of speechToText.
handleVoiceMessage(userId, audioData, conversationId) ==
    /\ call.pc = "idle"
    /\ turn[VoiceTurn].pc = "idle"
    /\ conversationId = NoId => nextConvId <= MaxConvs
    /\ call' = [IdleCall EXCEPT !.pc = "speechToText", !.op = "handleVoiceMessage",
                                !.userId = userId, !.audioData = audioData,
                                !.conversationId = conversationId, !.snapshot = Snapshot]
    /\ UNCHANGED <<store, turn, arg, res, chat>>

\* speechToText has answered: handleMessage is called with the transcript and the
\* message type voice and runs to its first await.
Transcribed ==
    /\ call.pc = "speechToText"
    /\ LET transcribedText == speechToText(call.audioData)
       IN  /\ call' = [call EXCEPT !.pc = "handleMessage", !.transcribedText = transcribedText]
           /\ turn' = [turn EXCEPT ![VoiceTurn] =
                          NewTurn(call.userId, transcribedText, call.conversationId, "voice")]
    /\ UNCHANGED <<store, arg, res, chat>>

\* handleMessage has returned or thrown: the result is enriched and returned, the
\* error is thrown again.
VoiceReturn ==
    /\ call.pc = "handleMessage"
    /\ turn[VoiceTurn].pc \in {"done", "failed"}
    /\ IF turn[VoiceTurn].pc = "done"
       THEN call' = [call EXCEPT !.pc = "done",
                                 !.result = Enriched(turn[VoiceTurn].response, call.audioData,
                                                     call.transcribedText)]
       ELSE call' = [call EXCEPT !.pc = "failed", !.error = turn[VoiceTurn].error]
    /\ turn' = [turn EXCEPT ![VoiceTurn] = IdleTurn]
    /\ UNCHANGED <<store, arg, res, chat>>

(***************************************************************************)
(* userSchema.methods.checkLimits.  A JavaScript value that is a number or *)
(* undefined is a record: defined, and the number when it is.              *)
(***************************************************************************)
Number(n) == [defined |-> TRUE, value |-> n]
Missing == [defined |-> FALSE, value |-> 0]

\* object[key]: undefined when the object has no such property.
Property(object, key) == IF key \in DOMAIN object THEN Number(object[key]) ELSE Missing

\* a || b on numbers: a when it is truthy (defined and not 0), else b.
Or(a, b) == IF a.defined /\ a.value # 0 THEN a ELSE b

\* a < b on numbers: false when either side is undefined.
LessThan(a, b) == a.defined /\ b.defined /\ a.value < b.value

PlanLimits ==
    [free |-> [messages |-> 100, images |-> 10, code |-> 50],
     basic |-> [messages |-> 1000, images |-> 100, code |-> 500],
     premium |-> [messages |-> 10000, images |-> 1000, code |-> 5000],
     enterprise |-> [messages |-> -1, images |-> -1, code |-> -1]]

\* user.checkLimits(type) for a user on plan with the usage counters usage.
checkLimits(plan, usage, type) ==
    LET limit == Property(PlanLimits[plan], type)
        current == Or(Property(usage, type \o "sSent"),
                      Or(Property(usage, type \o "sGenerated"),
                         Property(usage, type \o "sGenerated")))
    IN  IF limit = Number(-1) THEN TRUE ELSE LessThan(current, limit)

NoVerdict == [allowed |-> FALSE, checked |-> FALSE]

\* A stand-alone call of checkLimits on the user and the type in arg.
CheckLimits ==
    /\ res = NoVerdict
    /\ res' = [allowed |-> checkLimits(arg.plan, arg.usage, arg.type), checked |-> TRUE]
    /\ UNCHANGED <<store, turn, call, arg, chat>>

(***************************************************************************)
(* The chat page (client/src/App.js).  An id is a number when the page made *)
(* it with Date.now() and a string when it is the _id of a stored document *)
(* sent over the socket: the kind is part of the value, as it is for ===.  *)
(* The socket hands send_message to handleMessage as turn 1 and hands back *)
(* what handleMessage returns as message_response, what it throws as error.*)
(***************************************************************************)
NumberId(n) == [kind |-> "number", value |-> n]
StringId(id) == [kind |-> "string", value |-> id]

ChatTurn == 1

\* Time passes on the browser's clock.
Tick ==
    /\ chat.now < MaxClock
    /\ chat' = [chat EXCEPT !.now = @ + 1]
    /\ UNCHANGED <<store, turn, call, arg, res>>

\* handleSendMessage(message, type) on the page of user userId showing conversationId.
\* sending is set and cleared again before the handler returns.
handleSendMessage(userId, conversationId, message, type) ==
    /\ turn[ChatTurn].pc = "idle"
    /\ Len(chat.messages) < MaxChat
    /\ conversationId = NoId => nextConvId <= MaxConvs
    /\ IF trim(message) = <<>> \/ chat.sending
       THEN UNCHANGED <<turn, chat>>
       ELSE LET userMessage == [id |-> NumberId(chat.now), sender |-> "user",
                                content |-> trim(message), messageType |-> type,
                                status |-> "sending"]
            IN  /\ chat' = [chat EXCEPT !.messages = Append(@, userMessage),
                                        !.sending = FALSE]
                /\ turn' = [turn EXCEPT ![ChatTurn] =
                               NewTurn(userId, trim(message), conversationId, type)]
    /\ UNCHANGED <<store, call, arg, res>>

\* The messages after handleMessageResponse(response): the message whose id is
\* response.userMessage.id becomes sent, and the AI message is added at the end.
MessagesAfterResponse(messages, response) ==
    Append([i \in 1..Len(messages) |->
               IF messages[i].id = StringId(response.userMessage.id)
               THEN [messages[i] EXCEPT !.status = "sent"]
               ELSE messages[i]],
           [id |-> StringId(response.aiMessage.id), sender |-> "ai",
            content |-> response.aiMessage.content,
            messageType |-> response.aiMessage.type, status |-> ""])

\* message_response arrives with what the turn returned.
handleMessageResponse ==
    /\ turn[ChatTurn].pc = "done"
    /\ chat' = [chat EXCEPT !.messages = MessagesAfterResponse(@, turn[ChatTurn].response)]
    /\ turn' = [turn EXCEPT ![ChatTurn] = IdleTurn]
    /\ UNCHANGED <<store, call, arg, res>>

\* error arrives with what the turn threw: a toast, the messages stay as they are.
handleSocketError ==
    /\ turn[ChatTurn].pc = "failed"
    /\ turn' = [turn EXCEPT ![ChatTurn] = IdleTurn]
    /\ UNCHANGED <<store, call, arg, res, chat>>

(***************************************************************************)
(* A stand-alone call of analyzeIntent.                                    *)
(***************************************************************************)
Classify ==
    /\ res = NoIntent
    /\ res' = analyzeIntent(arg)
    /\ UNCHANGED <<store, turn, call, arg, chat>>

(***************************************************************************)
(* Specifications.  The server handles one request at a time: a request    *)
(* begins when no other is under way and the counter updates that earlier  *)
(* requests left running have reached the database.  The only activity     *)
(* that overlaps a request is the counter update that a message's pre-save *)
(* hook issues without awaiting it.                                        *)
(***************************************************************************)
Quiet ==
    /\ \A t \in Turns : turn[t].pc = "idle"
    /\ call.pc = "idle"
    /\ \A c \in ConvIds : pendingInc[c] = 0

\* The database has room for the two messages of one more exchange among n.
Room(n) == nextMsgId + 1 <= n

\* The steps of the turns under way, the providers answering from replies.
TurnWork(replies) ==
    \/ \E t \in Turns : FindUser(t)
    \/ \E t \in Turns : GetConversation(t)
    \/ \E t \in Turns : SaveUserMessage(t)
    \/ \E t \in Turns : UpdateConversation(t)
    \/ \E t \in Turns : GenerateAIResponse(t)
    \/ \E t \in Turns, r \in replies : OpenAIReturns(t, r)
    \/ \E t \in Turns : OpenAIFails(t)
    \/ \E t \in Turns, r \in replies : GeminiReturns(t, r)
    \/ \E t \in Turns : GeminiFails(t)
    \/ \E t \in Turns : SaveAiMessage(t)
    \/ \E t \in Turns : UpdateConversationAi(t)
    \/ \E t \in Turns : Respond(t)
    \/ \E c \in ConvIds : ApplyIncrement(c)

\* The steps of the turns under way and their results reaching the socket handler.
TurnStep(replies) ==
    \/ TurnWork(replies)
    \/ \E t \in Turns : Settle(t)

\* The controller's conversation requests.
ConversationRequest ==
    \/ \E u \in UserIds, c \in ConvIds : Quiet /\ getConversationHistory(u, c)
    \/ \E u \in UserIds, c \in ConvIds : Quiet /\ deleteConversation(u, c)
    \/ DeleteMessages
    \/ SettleCall

\* Spec: exchanges, sharing, history requests and deletions, one after the other.
SeqMessages == {Msg_hi, Msg_search, Msg_over500}
SeqReplies == {Reply_ok}

Next ==
    \/ \E t \in SeqTurns, u \in UserIds, m \in SeqMessages, c \in {NoId} \cup ConvIds :
          Quiet /\ Room(MaxMsgs) /\ handleMessage(t, u, m, c, "text")
    \/ TurnStep(SeqReplies)
    \/ \E c \in ConvIds, u \in Users : Quiet /\ shareWith(c, u, "read")
    \/ ConversationRequest

Spec == Init /\ [][Next]_vars

\* SpecFirst: the first exchange on a database that holds no message yet, over every
\* kind of message and of provider answer.
NextFirst ==
    \/ \E t \in SeqTurns, u \in UserIds, m \in Messages, c \in {NoId} \cup ConvIds :
          Quiet /\ nextMsgId = 1 /\ handleMessage(t, u, m, c, "text")
    \/ TurnStep(Replies)

SpecFirst == Init /\ [][NextFirst]_vars

\* SpecRoutes: the first exchange again, over every kind of message, with provider
\* answers that fit every length limit.
NextRoutes ==
    \/ \E t \in SeqTurns, u \in UserIds, m \in Messages, c \in {NoId} \cup ConvIds :
          Quiet /\ nextMsgId = 1 /\ handleMessage(t, u, m, c, "text")
    \/ TurnStep(SeqReplies)

SpecRoutes == Init /\ [][NextRoutes]_vars

\* SpecOps: short exchanges together with soft deletion and restoring of messages.
OpsMessages == {Msg_hi}

NextOps ==
    \/ \E t \in SeqTurns, u \in Users, m \in OpsMessages, c \in {NoId} \cup ConvIds :
          Quiet /\ Room(MaxMsgs) /\ handleMessage(t, u, m, c, "text")
    \/ TurnStep(SeqReplies)
    \/ \E m \in MsgIds, u \in Users : Quiet /\ softDelete(m, u)
    \/ \E m \in MsgIds : Quiet /\ restore(m)
    \/ SettleCall

SpecOps == Init /\ [][NextOps]_vars

\* SpecReactions: the first exchange, then reactions to its messages.
ReactionInputs == {"like", "love", "dislike"}

NextReactions ==
    \/ \E t \in SeqTurns, u \in Users, m \in OpsMessages :
          Quiet /\ nextMsgId = 1 /\ handleMessage(t, u, m, NoId, "text")
    \/ TurnStep(SeqReplies)
    \/ \E m \in MsgIds, u \in Users, r \in ReactionInputs : Quiet /\ addReaction(m, u, r)
    \/ \E m \in MsgIds, u \in Users : Quiet /\ removeReaction(m, u)
    \/ SettleCall

SpecReactions == Init /\ [][NextReactions]_vars

\* SpecEdits: the first exchange, then up to MaxEdits edits of each of its messages.
MaxEdits == 2

EditInputs == {Reply_ok, Msg_search, Msg_empty}

NextEdits ==
    \/ \E t \in SeqTurns, u \in Users, m \in OpsMessages :
          Quiet /\ nextMsgId = 1 /\ handleMessage(t, u, m, NoId, "text")
    \/ TurnStep(SeqReplies)
    \/ \E m \in MsgIds, c \in EditInputs :
          /\ Quiet
          /\ m \in DOMAIN msgs
          /\ Len(msgs[m].metadata.editHistory) < MaxEdits
          /\ edit(m, c)
    \/ SettleCall

SpecEdits == Init /\ [][NextEdits]_vars

\* SpecMutations: the first exchange, by u1, then calls of the message methods on the
\* user's message, for the owner u1 and for u2, with whom the conversation is not
\* shared.
MaxAttachments == 1

MutationInputs == [content |-> Reply_ok, reactionType |-> "like", username |-> "bob",
                   attachment |-> "a.png"]

\* The stored messages that a user sent.
UserMessageIds == {m \in DOMAIN msgs : msgs[m].sender = "user"}

NextMutations ==
    \/ \E t \in SeqTurns, m \in OpsMessages :
          Quiet /\ nextMsgId = 1 /\ handleMessage(t, "u1", m, NoId, "text")
    \/ TurnStep(SeqReplies)
    \/ \E m \in UserMessageIds, u \in Users : Quiet /\ softDelete(m, u)
    \/ \E m \in UserMessageIds : Quiet /\ restore(m)
    \/ \E m \in UserMessageIds, u \in Users : Quiet /\ addReaction(m, u, MutationInputs.reactionType)
    \/ \E m \in UserMessageIds, u \in Users : Quiet /\ removeReaction(m, u)
    \/ \E m \in UserMessageIds :
          /\ Quiet
          /\ Len(msgs[m].metadata.editHistory) < MaxEdits
          /\ edit(m, MutationInputs.content)
    \/ \E m \in UserMessageIds : Quiet /\ addMention(m, "u2", MutationInputs.username)
    \/ \E m \in UserMessageIds :
          /\ Quiet
          /\ Len(msgs[m].metadata.attachments) < MaxAttachments
          /\ addAttachment(m, MutationInputs.attachment)
    \/ SettleCall

SpecMutations == Init /\ [][NextMutations]_vars

\* SpecHistory: one user's exchanges in one conversation, up to MaxHistoryMsgs
\* messages, more than the context query's limit.
MaxHistoryMsgs == 12

NextHistory ==
    \/ \E t \in SeqTurns :
          /\ Quiet
          /\ Room(MaxHistoryMsgs)
          /\ handleMessage(t, "u1", Msg_hi, IF nextConvId = 1 THEN NoId ELSE 1, "text")
    \/ TurnStep(SeqReplies)

SpecHistory == Init /\ [][NextHistory]_vars

\* SpecConcurrent: turns under way at once on a database that held no message when
\* they began, their steps interleaved in every order.  A turn begins while the ids
\* it may take stay within the bounds.
Starting == {t \in Turns : turn[t].pc \in {"findUser", "getConversation"}
                           /\ turn[t].conversationId = NoId}

NextConcurrent ==
    \/ \E t \in Turns, u \in Users, c \in {NoId} \cup ConvIds :
          /\ nextMsgId = 1
          /\ c = NoId => nextConvId + Cardinality(Starting) <= MaxConvs
          /\ handleMessage(t, u, Msg_hi, c, "text")
    \/ TurnStep(SeqReplies)

SpecConcurrent == Init /\ [][NextConcurrent]_vars

\* SpecVoice: voice turns, one after the other.
AudioData == {"audio1", "audio2"}

NextVoice ==
    \/ \E u \in UserIds, a \in AudioData, c \in {NoId} \cup ConvIds :
          Quiet /\ Room(MaxMsgs) /\ handleVoiceMessage(u, a, c)
    \/ Transcribed
    \/ TurnWork(Replies)
    \/ VoiceReturn
    \/ SettleCall

SpecVoice == Init /\ [][NextVoice]_vars

\* SpecSharing: one conversation, shared, unshared and asked for access.
Permissions == {"read", "write", "admin"}

NextSharing ==
    \/ \E t \in SeqTurns, u \in Users :
          Quiet /\ nextMsgId = 1 /\ handleMessage(t, u, Msg_hi, NoId, "text")
    \/ TurnStep(SeqReplies)
    \/ \E c \in ConvIds, u \in UserIds, p \in Permissions : Quiet /\ shareWith(c, u, p)
    \/ \E c \in ConvIds, u \in UserIds : Quiet /\ removeShare(c, u)
    \/ \E c \in ConvIds, u \in UserIds, r \in Permissions : Quiet /\ CheckAccess(c, u, r)
    \/ SettleCall

SpecSharing == Init /\ [][NextSharing]_vars

\* SpecTags: one conversation, tagged and untagged.
Tag_a == Str(<<"a">>)
Tag_padded == Str(<<" ", "a">>)
Tag_b == Str(<<"b">>)
Tag_over50 == Rep("c", TagMaxLength + 1)
Tags == {Tag_a, Tag_padded, Tag_b, Tag_over50}

NextTags ==
    \/ \E t \in SeqTurns, u \in Users :
          Quiet /\ nextMsgId = 1 /\ handleMessage(t, u, Msg_hi, NoId, "text")
    \/ TurnStep(SeqReplies)
    \/ \E c \in ConvIds, tag \in Tags : Quiet /\ addTag(c, tag)
    \/ \E c \in ConvIds, tag \in Tags : Quiet /\ removeTag(c, tag)
    \/ SettleCall

SpecTags == Init /\ [][NextTags]_vars

\* SpecLimits: checkLimits on its own, over every plan, feature and usage.
Plans == {"free", "basic", "premium", "enterprise"}
LimitTypes == {"messages", "images", "code", "message", "image"}
UsageValues == {0, 9, 10, 100}

InitLimits ==
    /\ users = [u \in Users |-> [messagesSent |-> 0, imagesGenerated |-> 0, codeGenerated |-> 0]]
    /\ convs = <<>>
    /\ msgs = <<>>
    /\ pendingInc = [c \in ConvIds |-> 0]
    /\ nextConvId = 1
    /\ nextMsgId = 1
    /\ turn = [t \in Turns |-> IdleTurn]
    /\ call = IdleCall
    /\ arg \in [plan : Plans, type : LimitTypes,
                usage : [messagesSent : UsageValues, imagesGenerated : UsageValues,
                         codeGenerated : UsageValues]]
    /\ res = NoVerdict
    /\ chat = NoChat

NextLimits == CheckLimits

SpecLimits == InitLimits /\ [][NextLimits]_vars

\* SpecSame: a conversation that holds one finished exchange, then two turns on it at
\* once, their steps interleaved in every order.
Msg_ok == Str(<<"o", "k">>)
SameMessages == {Msg_hi, Msg_ok}
FirstMsgs == 2

NextSame ==
    \/ \E t \in SeqTurns : Quiet /\ nextMsgId = 1 /\ handleMessage(t, "u1", Msg_hi, NoId, "text")
    \/ \E t \in Turns, m \in SameMessages :
          /\ nextMsgId = FirstMsgs + 1
          /\ \A s \in Turns : turn[s].pc \in {"idle", "findUser", "getConversation"}
          /\ \A c \in ConvIds : pendingInc[c] = 0
          /\ handleMessage(t, "u1", m, 1, "text")
    \/ TurnStep(SeqReplies)

SpecSame == Init /\ [][NextSame]_vars

\* SpecDeleteRace: turns of one user and deletions of that user's conversations, the
\* steps of a turn and of a deletion interleaved in every order.
NextDeleteRace ==
    \/ \E t \in SeqTurns, c \in {NoId} \cup ConvIds :
          Room(MaxMsgs) /\ handleMessage(t, "u1", Msg_hi, c, "text")
    \/ TurnStep(SeqReplies)
    \/ \E c \in ConvIds : deleteConversation("u1", c)
    \/ DeleteMessages
    \/ SettleCall

SpecDeleteRace == Init /\ [][NextDeleteRace]_vars

\* SpecChat: the chat page of u1 sending messages, the server answering each.
Msg_blank == Str(<<" ">>)
ChatMessagesTyped == {Msg_hi, Msg_leading, Msg_blank}

NextChat ==
    \/ Tick
    \/ \E c \in {NoId} \cup ConvIds, m \in ChatMessagesTyped :
          Quiet /\ Room(MaxMsgs) /\ handleSendMessage("u1", c, m, "text")
    \/ TurnWork(SeqReplies)
    \/ handleMessageResponse
    \/ handleSocketError

SpecChat == Init /\ [][NextChat]_vars

\* SpecIntent: analyzeIntent on its own, over the messages of up to MaxWords words.

MaxWords == 2

W_hi == Str(<<"h", "i">>)
W_Write == Str(<<"W", "r", "i", "t", "e">>)
W_CODE == Str(<<"C", "O", "D", "E">>)
Space == Str(<<" ">>)

IntentWords ==
    {W_generate, W_create, W_image, W_picture, W_code, W_program, W_function, W_write,
     W_script, W_search, W_find, W_latest, W_voice, W_speak, W_audio, W_analyze,
     W_document, W_file, W_hi, W_Write, W_CODE}

\* The words ws, in order, with a space between neighbours.
RECURSIVE Sentence(_)
Sentence(ws) ==
    IF Len(ws) = 1 THEN ws[1]
    ELSE Concat(ws[1], Concat(Space, Sentence(Tail(ws))))

IntentMessages == {Sentence(ws) : ws \in UNION {[1..k -> IntentWords] : k \in 1..MaxWords}}

InitIntent ==
    /\ users = [u \in Users |-> [messagesSent |-> 0, imagesGenerated |-> 0, codeGenerated |-> 0]]
    /\ convs = <<>>
    /\ msgs = <<>>
    /\ pendingInc = [c \in ConvIds |-> 0]
    /\ nextConvId = 1
    /\ nextMsgId = 1
    /\ turn = [t \in Turns |-> IdleTurn]
    /\ call = IdleCall
    /\ arg \in IntentMessages
    /\ res = NoIntent
    /\ chat = NoChat

NextIntent == Classify

SpecIntent == InitIntent /\ [][NextIntent]_vars

(***************************************************************************)
(* Properties.                                                             *)
(***************************************************************************)
\* The messages of conversation c in the collection ms.
MessagesOf(ms, c) == {m \in DOMAIN ms : ms[m].conversationId = c}

NoPending == \A c \in ConvIds : pendingInc[c] = 0

\* C1: once every pending counter update has been applied, the messageCount of each
\* conversation equals the number of its messages whose isDeleted flag is false.
C1_MessageCountIsLiveCount ==
    NoPending =>
        \A c \in DOMAIN convs :
            convs[c].messageCount =
                Cardinality({m \in MessagesOf(msgs, c) : msgs[m].isDeleted = FALSE})

\* The turn's userId names no user, or its conversationId names no conversation or a
\* conversation of another user, in the collections as the turn found them.
BadLookup(T) ==
    \/ T.userId \notin DOMAIN T.snapshot.users
    \/ /\ T.conversationId # NoId
       /\ \/ T.conversationId \notin DOMAIN T.snapshot.convs
          \/ T.snapshot.convs[T.conversationId].userId # T.userId

StoreAsAt(S) ==
    convs = S.convs /\ msgs = S.msgs /\ users = S.users /\ pendingInc = S.pendingInc

\* C2: a turn whose user or conversation lookup cannot succeed ends with an error once
\* it is past the lookups, and the collections are then exactly as the turn found them.
C2_FailedLookupChangesNothing ==
    \A t \in Turns :
        (turn[t].pc \notin {"idle", "findUser", "getConversation"} /\ BadLookup(turn[t]))
            => /\ turn[t].pc = "failed"
               /\ turn[t].error \in {"User not found", "Conversation not found or access denied"}
               /\ StoreAsAt(turn[t].snapshot)

\* A turn on the conversation of another user, which holds messages, has failed.
C2_Witness ==
    \E t \in Turns :
        /\ turn[t].pc = "failed"
        /\ turn[t].conversationId \in DOMAIN convs
        /\ convs[turn[t].conversationId].userId # turn[t].userId
        /\ turn[t].userId \in DOMAIN users
        /\ MessagesOf(msgs, turn[t].conversationId) # {}

\* C3: a provider call is started only by a turn whose user message is stored, and the
\* user message of a turn stays stored, as the turn wrote it, through every later step
\* of the turn, failed steps included.
C3_UserMessageDurable ==
    \A t \in Turns :
        /\ turn[t].primary # "" => turn[t].userMessage # NoId
        /\ turn[t].pc \in {"updateConversation", "generateAIResponse", "openai", "gemini",
                           "saveAiMessage", "updateConversationAi", "respond", "done"}
              => turn[t].userMessage # NoId
        /\ turn[t].userMessage # NoId
              => /\ turn[t].userMessage \in DOMAIN msgs
                 /\ msgs[turn[t].userMessage].sender = "user"
                 /\ msgs[turn[t].userMessage].content = turn[t].message
                 /\ msgs[turn[t].userMessage].conversationId = turn[t].conversation.id

\* A turn has failed after its provider call, and its user message is stored.
C3_Witness ==
    \E t \in Turns :
        /\ turn[t].pc = "failed"
        /\ turn[t].primary # ""
        /\ turn[t].userMessage \in DOMAIN msgs

\* C4: a turn in which the primary and the fallback provider both failed returns a
\* result, with the stored user message and an AI message whose metadata has
\* error = true.
C4_BothProvidersFailMarksError ==
    \A t \in Turns :
        (turn[t].primary = "failed" /\ turn[t].fallback = "failed")
            => /\ turn[t].pc # "failed"
               /\ "error" \in DOMAIN turn[t].aiResponse.metadata
               /\ turn[t].aiResponse.metadata.error = TRUE
               /\ turn[t].pc = "done"
                     => /\ turn[t].response.userMessage.id \in DOMAIN msgs
                        /\ turn[t].response.aiMessage.metadata = turn[t].aiResponse.metadata

\* The conversations and messages that were not there when the turn began.
NewConversations(T) == (DOMAIN convs) \ (DOMAIN T.snapshot.convs)
NewMessages(T) == (DOMAIN msgs) \ (DOMAIN T.snapshot.msgs)

\* What a completed turn without conversationId has created, the title apart: one
\* conversation of the sender and, in it, one user message and one AI message.
FirstTurnCreated(T) ==
    /\ NewConversations(T) = {T.conversation.id}
    /\ convs[T.conversation.id].userId = T.userId
    /\ NewMessages(T) = {T.userMessage, T.aiMessage}
    /\ T.userMessage # T.aiMessage
    /\ msgs[T.userMessage].sender = "user"
    /\ msgs[T.aiMessage].sender = "ai"
    /\ \A m \in NewMessages(T) : msgs[m].conversationId = T.conversation.id

\* C5 as stated: the title is the first 50 characters of the message followed by the
\* ellipsis marker.
C5_TitleIsPrefixAndEllipsis ==
    \A t \in Turns :
        (turn[t].pc = "done" /\ turn[t].conversationId = NoId)
            => /\ FirstTurnCreated(turn[t])
               /\ convs[turn[t].conversation.id].title =
                     Concat(Take(turn[t].message, 50), Ellipsis)

\* C5 amended: a completed turn without conversationId has created exactly one
\* conversation, of the sender, and exactly two messages in it, one of the user and one
\* of the AI; the title is the first 50 characters of the message followed by the
\* ellipsis marker, with leading whitespace removed.
C5_TitleIsTrimmedPrefixAndEllipsis ==
    \A t \in Turns :
        (turn[t].pc = "done" /\ turn[t].conversationId = NoId)
            => /\ FirstTurnCreated(turn[t])
               /\ convs[turn[t].conversation.id].title =
                     trim(Concat(Take(turn[t].message, 50), Ellipsis))

\* A turn without conversationId has completed on a message of more than 50 characters.
C5_Witness ==
    \E t \in Turns :
        /\ turn[t].pc = "done"
        /\ turn[t].conversationId = NoId
        /\ length(turn[t].message) > 50

\* C6: when the gateway call of a turn has succeeded, the turn returns a result and has
\* stored one AI message with the content and type the gateway returned and with the
\* classified intent and confidence in its metadata.
C6_GatewayResultPersisted ==
    \A t \in Turns :
        (turn[t].primary = "ok" /\ turn[t].pc \in {"done", "failed"})
            => /\ turn[t].pc = "done"
               /\ turn[t].aiMessage \in DOMAIN msgs
               /\ {m \in NewMessages(turn[t]) : msgs[m].sender = "ai"} = {turn[t].aiMessage}
               /\ msgs[turn[t].aiMessage].content = turn[t].aiResponse.content
               /\ msgs[turn[t].aiMessage].messageType = turn[t].aiResponse.type
               /\ msgs[turn[t].aiMessage].metadata.intent = turn[t].intent.type
               /\ msgs[turn[t].aiMessage].metadata.confidence = turn[t].intent.confidence

\* User u neither owns conversation c of the collection cs nor has it shared with them.
Outsider(cs, u, c) ==
    /\ c \in DOMAIN cs
    /\ cs[c].userId # u
    /\ \A i \in 1..Len(cs[c].sharedWith) : cs[c].sharedWith[i].userId # u

\* C7: getConversationHistory or deleteConversation by a user who neither owns the
\* conversation nor has it shared with them fails with the not-found error, returns no
\* conversation and no message, and leaves the collections as they were.
C7_OutsiderGetsNothing ==
    (/\ call.op \in {"getConversationHistory", "deleteConversation"}
     /\ call.pc # "idle"
     /\ Outsider(call.snapshot.convs, call.userId, call.conversationId))
        => /\ call.pc = "failed"
           /\ call.error = "Conversation not found"
           /\ "conversation" \notin DOMAIN call.result
           /\ "messages" \in DOMAIN call.result => call.result.messages = <<>>
           /\ StoreAsAt(call.snapshot)

\* deleteConversation by an outsider on a conversation that holds messages has failed.
C7_Witness ==
    /\ call.op = "deleteConversation"
    /\ call.pc = "failed"
    /\ Outsider(convs, call.userId, call.conversationId)
    /\ MessagesOf(msgs, call.conversationId) # {}

\* C8: whenever no deletion is half-way, every conversation that has been deleted is
\* absent, no stored message carries its id, and getConversationHistory on it fails
\* with the not-found error for every user.
C8_DeleteCascades ==
    call.pc # "deleteMany" =>
        \A c \in 1..(nextConvId - 1) :
            c \notin DOMAIN convs
                => /\ MessagesOf(msgs, c) = {}
                   /\ \A u \in UserIds :
                         ConversationHistory(convs, msgs, u, c).error = "Conversation not found"

\* deleteConversation by the owner has succeeded on a conversation that held messages.
C8_Witness ==
    /\ call.op = "deleteConversation"
    /\ call.pc = "done"
    /\ call.result.success = TRUE
    /\ MessagesOf(call.snapshot.msgs, call.conversationId) # {}
    /\ call.conversationId \notin DOMAIN convs

\* The classifier of the rule table: the first rule, in table order, whose trigger
\* holds on the lower-cased message.
TableIntent(message) ==
    LET lowerMessage == toLowerCase(message)
        has(word) == includes(lowerMessage, word)
    IN  IF (has(W_generate) \/ has(W_create)) /\ (has(W_image) \/ has(W_picture))
        THEN [type |-> "image_generation", confidence |-> 90]
        ELSE IF has(W_write) /\ (has(W_code) \/ has(W_script))
        THEN [type |-> "code_generation", confidence |-> 90]
        ELSE IF has(W_code) \/ has(W_program) \/ has(W_function)
        THEN [type |-> "code_generation", confidence |-> 80]
        ELSE IF has(W_search) \/ has(W_find) \/ has(W_latest)
        THEN [type |-> "web_search", confidence |-> 70]
        ELSE IF has(W_voice) \/ has(W_speak) \/ has(W_audio)
        THEN [type |-> "voice_command", confidence |-> 80]
        ELSE IF has(W_analyze) \/ has(W_document) \/ has(W_file)
        THEN [type |-> "document_analysis", confidence |-> 70]
        ELSE [type |-> "text_response", confidence |-> 90]

\* C9: analyzeIntent returns the category and confidence of the first rule of the rule
\* table whose trigger holds on the lower-cased message.
C9_IntentFollowsRuleTable ==
    res # NoIntent => res = TableIntent(arg)

\* The list of documents shows the content of the stored message m.
Shows(list, m) ==
    \E i \in 1..Len(list) :
        list[i].id = m /\ "content" \in DOMAIN list[i] /\ list[i].content = msgs[m].content

\* C10: a soft-deleted message is still stored, and no read operation returns its
\* content: getSummary gives the placeholder, and findByConversation, search,
\* findByType, getConversationHistory and the context fetch of generateAIResponse omit
\* the message or its content.
C10_DeletedContentHidden ==
    /\ (call.op = "softDelete" /\ call.pc = "done") => call.messageId \in DOMAIN msgs
    /\ \A m \in DOMAIN msgs :
          msgs[m].isDeleted
             => LET c == msgs[m].conversationId
                IN  /\ getSummary(m, msgs[m]).content = DeletedPlaceholder
                    /\ ~Shows(findByConversation(msgs, c), m)
                    /\ ~Shows(search(msgs, c, msgs[m].content), m)
                    /\ ~Shows(findByType(msgs, c, msgs[m].messageType), m)
                    /\ \A u \in UserIds : ~Shows(ConversationHistory(convs, msgs, u, c).messages, m)
                    /\ ~Shows(ContextFetch(msgs, c), m)

\* The reactions of userId in a reactions list, in order.
ReactionsOf(reactions, userId) == SelectSeq(reactions, LAMBDA r : r.userId = userId)

\* The reactions of the users other than userId, in order.
ReactionsOfOthers(reactions, userId) == SelectSeq(reactions, LAMBDA r : r.userId # userId)

\* A call of the message method op that began in this step ended as outcome.
MethodCall(op, outcome) == call.pc = "idle" /\ call'.op = op /\ call'.pc = outcome

\* C11: after any sequence of addReaction and removeReaction calls a message holds at
\* most one reaction per user; addReaction(u, t) leaves u's single reaction with type
\* t, removeReaction(u) leaves none, a call made for u leaves the reactions of the
\* other users as they were, and no other step changes a message's reactions, so the
\* reaction of a user stays that of the user's last addReaction.
C11_OneReactionPerUser ==
    [][/\ \A m \in DOMAIN msgs', u \in UserIds :
              Len(ReactionsOf(msgs'[m].metadata.reactions, u)) <= 1
       /\ MethodCall("addReaction", "done") =>
              LET m == call'.messageId
                  u == call'.userId
                  mine == ReactionsOf(msgs'[m].metadata.reactions, u)
              IN  /\ Len(mine) = 1
                  /\ mine[1].type = call'.reactionType
                  /\ ReactionsOfOthers(msgs'[m].metadata.reactions, u)
                        = ReactionsOfOthers(msgs[m].metadata.reactions, u)
       /\ MethodCall("removeReaction", "done") =>
              LET m == call'.messageId
                  u == call'.userId
              IN  /\ ReactionsOf(msgs'[m].metadata.reactions, u) = <<>>
                  /\ ReactionsOfOthers(msgs'[m].metadata.reactions, u)
                        = ReactionsOfOthers(msgs[m].metadata.reactions, u)
       /\ \A m \in DOMAIN msgs :
              (~MethodCall("addReaction", "done") /\ ~MethodCall("removeReaction", "done"))
                 => /\ m \in DOMAIN msgs'
                    /\ msgs'[m].metadata.reactions = msgs[m].metadata.reactions
       /\ \A m \in DOMAIN msgs :
              (m \in DOMAIN msgs' /\ m # call'.messageId)
                 => msgs'[m].metadata.reactions = msgs[m].metadata.reactions
      ]_vars

\* A user who had reacted to a message reacts again with another type, while the
\* message holds another user's reaction too.
C11_Witness ==
    /\ call.op = "addReaction" /\ call.pc = "done"
    /\ LET before == call.snapshot.msgs[call.messageId].metadata.reactions
           mine == ReactionsOf(before, call.userId)
       IN  /\ Len(mine) = 1
           /\ mine[1].type # call.reactionType
           /\ ReactionsOfOthers(before, call.userId) # <<>>

\* The contents an edit history holds, in order.
HistoryContents(editHistory) == [i \in 1..Len(editHistory) |-> editHistory[i].content]

\* C12: edit(c) leaves the content c and isEdited true and appends the prior content
\* to editHistory, whose earlier entries stay as they were; no other step changes the
\* content or the history.  So n edits c1..cn of a message of content c0 leave the
\* content cn and the history c0, ..., c(n-1), in that order.
C12_EditKeepsHistory ==
    [][/\ MethodCall("edit", "done") =>
              LET m == call'.messageId
              IN  /\ msgs'[m].content = call'.newContent
                  /\ msgs'[m].metadata.isEdited = TRUE
                  /\ HistoryContents(msgs'[m].metadata.editHistory)
                        = Append(HistoryContents(msgs[m].metadata.editHistory), msgs[m].content)
                  /\ SubSeq(msgs'[m].metadata.editHistory, 1, Len(msgs[m].metadata.editHistory))
                        = msgs[m].metadata.editHistory
       /\ \A m \in DOMAIN msgs :
              (~MethodCall("edit", "done") \/ m # call'.messageId)
                 => /\ m \in DOMAIN msgs'
                    /\ msgs'[m].content = msgs[m].content
                    /\ msgs'[m].metadata.editHistory = msgs[m].metadata.editHistory
                    /\ msgs'[m].metadata.isEdited = msgs[m].metadata.isEdited
       /\ \A m \in DOMAIN msgs' :
              msgs'[m].metadata.isEdited = (msgs'[m].metadata.editHistory # <<>>)
      ]_vars

\* A message that was edited before is edited again, to another content.
C12_Witness ==
    /\ call.op = "edit" /\ call.pc = "done"
    /\ LET before == call.snapshot.msgs[call.messageId]
       IN  /\ Len(before.metadata.editHistory) >= 1
           /\ before.content # call.newContent
           /\ before.metadata.editHistory[1].content # before.content
           /\ Len(msgs[call.messageId].metadata.editHistory) = MaxEdits

\* The message methods that are told the user who acts.
ActorMethods == {"softDelete", "addReaction", "removeReaction"}

\* C13: a message mutation takes effect only when the acting user owns the message's
\* conversation or has it shared with them, and softDelete only when the actor is the
\* conversation's owner (the author of its user messages); for any other actor the
\* message is left unchanged.
C13_MutationNeedsAccess ==
    (call.pc = "done" /\ call.op \in ActorMethods)
        => LET m == call.messageId
               conv == convs[msgs[m].conversationId]
           IN  msgs[m] # call.snapshot.msgs[m]
                  => /\ hasAccess(conv, call.userId, "read")
                     /\ call.op = "softDelete" => conv.userId = call.userId

\* C14: a turn whose message text is not valid Message content (empty, or longer than
\* 10000 characters) never completes and writes nothing: at every point of the turn
\* the collections are as the turn found them, with or without a conversationId.
C14_InvalidMessageWritesNothing ==
    \A t \in Turns :
        (turn[t].pc # "idle" /\ ~ValidContent(turn[t].message))
            => /\ turn[t].pc # "done"
               /\ StoreAsAt(turn[t].snapshot)

\* C15: a turn ends in one of two ways.  Either it returns one result that holds the
\* persisted user message, the persisted AI message and the conversation summary
\* together, or it raises an error and hands over no result; before it ends there is
\* no result, so none ever holds the user message without the AI message.
C15_ResultIsWholeOrError ==
    \A t \in Turns :
        LET T == turn[t]
        IN  /\ T.pc = "done" =>
                  /\ T.error = ""
                  /\ T.response.userMessage.id \in DOMAIN msgs
                  /\ msgs[T.response.userMessage.id].sender = "user"
                  /\ msgs[T.response.userMessage.id].content = T.response.userMessage.content
                  /\ T.response.aiMessage.id \in DOMAIN msgs
                  /\ msgs[T.response.aiMessage.id].sender = "ai"
                  /\ msgs[T.response.aiMessage.id].content = T.response.aiMessage.content
                  /\ T.response.conversation.id \in DOMAIN convs
                  /\ T.response.conversation.id = T.response.conversationId
                  /\ msgs[T.response.userMessage.id].conversationId = T.response.conversationId
                  /\ msgs[T.response.aiMessage.id].conversationId = T.response.conversationId
            /\ T.pc = "failed" => T.error # ""
            /\ T.pc # "done" => T.response = NoResponse

\* A turn raised its error after it had persisted the user message.
C15_Witness ==
    \E t \in Turns :
        /\ turn[t].pc = "failed"
        /\ turn[t].userMessage \in DOMAIN msgs
        /\ turn[t].aiMessage = NoId

\* The last n elements of the sequence s, all of them when it has fewer.
LastOf(s, n) == SubSeq(s, IF Len(s) > n THEN Len(s) - n + 1 ELSE 1, Len(s))

\* C16: the history a turn fetches for the gateway is the (at most) 10 most recently
\* created messages of its conversation, oldest first; when the conversation has more
\* than 10 messages the older ones are the ones left out.
C16_HistoryIsMostRecentTen ==
    \A t \in Turns :
        turn[t].pc = "openai"
            => [i \in 1..Len(turn[t].history) |-> turn[t].history[i].id]
                  = LastOf(Ascending(MessagesOf(msgs, turn[t].conversation.id)), HistoryLimit)

\* The usage counter that counts content of the type a gateway result has.
UsageCounter(type) ==
    CASE type = "image" -> "imagesGenerated"
      [] type = "code" -> "codeGenerated"
      [] OTHER -> "messagesSent"

\* C17: once a turn in which a gateway call succeeded has ended, the sending user's
\* usage counter for the kind of content generated is larger than it was when the
\* turn began.
C17_UsageCounterGrows ==
    \A t \in Turns :
        LET T == turn[t]
        IN  (T.pc \in {"done", "failed"} /\ (T.primary = "ok" \/ T.fallback = "ok"))
                => users[T.userId][UsageCounter(T.aiResponse.type)]
                      > T.snapshot.users[T.userId][UsageCounter(T.aiResponse.type)]

\* The documents of coll that pass other are the same before and after the step,
\* none created, changed or deleted.
Untouched(before, after, other(_)) ==
    \A x \in (DOMAIN before) \cup (DOMAIN after) :
        ((x \in DOMAIN before /\ other(before[x])) \/ (x \in DOMAIN after /\ other(after[x])))
            => x \in DOMAIN before /\ x \in DOMAIN after /\ after[x] = before[x]

\* C18: in every interleaving of concurrent turns, a step of a turn on conversation A
\* by user U creates, changes or deletes no conversation other than A, no message of
\* another conversation and no user record other than U's, and issues counter updates
\* for A only; a counter update, when it arrives, changes the conversation it was
\* issued for and nothing else.
C18_TurnsAreIndependent ==
    [][/\ \A t \in Turns :
              turn'[t] # turn[t] =>
                  LET A == turn'[t].conversation.id
                      U == turn[t].userId
                      otherConversation(doc) == TRUE
                      otherMessage(doc) == doc.conversationId # A
                  IN  /\ Untouched([c \in (DOMAIN convs) \ {A} |-> convs[c]],
                                   [c \in (DOMAIN convs') \ {A} |-> convs'[c]],
                                   otherConversation)
                      /\ Untouched(msgs, msgs', otherMessage)
                      /\ DOMAIN users' = DOMAIN users
                      /\ \A u \in (DOMAIN users) \ {U} : users'[u] = users[u]
                      /\ \A c \in ConvIds \ {A} : pendingInc'[c] = pendingInc[c]
       /\ turn' = turn =>
              /\ msgs' = msgs /\ users' = users /\ DOMAIN convs' = DOMAIN convs
              /\ \A c \in DOMAIN convs : pendingInc'[c] = pendingInc[c] => convs'[c] = convs[c]
              /\ \A c \in ConvIds : pendingInc'[c] <= pendingInc[c]
      ]_vars

\* Two turns of different users are under way on different conversations, each with
\* its user message stored.
C18_Witness ==
    \E s, t \in Turns :
        /\ turn[s].userId # turn[t].userId
        /\ turn[s].conversation.id # NoId /\ turn[t].conversation.id # NoId
        /\ turn[s].conversation.id # turn[t].conversation.id
        /\ turn[s].userMessage \in DOMAIN msgs /\ turn[t].userMessage \in DOMAIN msgs
        /\ turn[s].pc = "openai" /\ turn[t].pc = "saveAiMessage"

\* C19: for a user message that is valid Message content on a conversation the user
\* owns, the update of the conversation that follows the saving of the user message
\* succeeds and leaves lastMessage equal to the message text; and when the turn has
\* completed, lastMessage equals the content of the turn's AI message.
C19_LastMessageFollowsTurn ==
    \A t \in Turns :
        LET T == turn[t]
        IN  (ValidContent(T.message) /\ T.userMessage # NoId)
                => /\ ~(T.pc = "failed" /\ T.aiResponse = NoResponse)
                   /\ T.pc = "generateAIResponse"
                         => convs[T.conversation.id].lastMessage = T.message
                   /\ T.pc = "done"
                         => convs[T.conversation.id].lastMessage = msgs[T.aiMessage].content

\* The paths of a message document that softDelete and restore write.
DeletionPaths == {"isDeleted", "deletedAt", "deletedBy"}

\* C20: softDelete changes nothing of a message but its deletion mark, and restore
\* changes nothing but that mark, which it clears: isDeleted false, deletedAt and
\* deletedBy unset.  So softDelete(u) followed by restore() leaves content,
\* editHistory, reactions and mentions exactly as they were before the softDelete;
\* neither removes a record from storage.
C20_RestoreUndoesSoftDelete ==
    [][/\ (MethodCall("softDelete", "done") \/ MethodCall("restore", "done")) =>
              /\ DOMAIN msgs' = DOMAIN msgs
              /\ \A m \in DOMAIN msgs :
                    /\ DOMAIN msgs'[m] = DOMAIN msgs[m]
                    /\ \A k \in (DOMAIN msgs[m]) \ DeletionPaths : msgs'[m][k] = msgs[m][k]
                    /\ m # call'.messageId => msgs'[m] = msgs[m]
       /\ MethodCall("softDelete", "done") =>
              /\ msgs'[call'.messageId].isDeleted = TRUE
              /\ msgs'[call'.messageId].deletedBy = call'.userId
       /\ MethodCall("restore", "done") =>
              /\ msgs'[call'.messageId].isDeleted = FALSE
              /\ msgs'[call'.messageId].deletedAt = ""
              /\ msgs'[call'.messageId].deletedBy = ""
       /\ \A m \in DOMAIN msgs, u \in Users :
              ~msgs[m].isDeleted => Restored(SoftDeleted(msgs[m], u)) = msgs[m]
      ]_vars

\* A message that was soft-deleted has been restored: it is stored, its deletion mark
\* is clear, and its content is the one it had.
C20_Witness ==
    /\ call.op = "restore" /\ call.pc = "done"
    /\ call.snapshot.msgs[call.messageId].isDeleted
    /\ call.snapshot.msgs[call.messageId].deletedBy \in Users
    /\ call.messageId \in DOMAIN msgs
    /\ ~msgs[call.messageId].isDeleted
    /\ msgs[call.messageId].content = call.snapshot.msgs[call.messageId].content
    /\ msgs[call.messageId].metadata.editHistory # <<>>
    /\ msgs[call.messageId].metadata.reactions # <<>>
    /\ msgs[call.messageId].metadata.mentions # <<>>

\* The characters of a string, one by one.
RECURSIVE Chars(_)
Chars(s) ==
    IF s = <<>> THEN <<>>
    ELSE [i \in 1..s[1][2] |-> s[1][1]] \o Chars(Tail(s))

\* The characters of a string with every capital letter replaced by its small one.
Folded(s) ==
    LET cs == Chars(s)
    IN  [i \in 1..Len(cs) |-> IF cs[i] \in DOMAIN UpperToLower THEN UpperToLower[cs[i]] ELSE cs[i]]

\* The character sequence w occurs in the character sequence cs.
Occurs(w, cs) == \E i \in 0..(Len(cs) - Len(w)) : \A j \in 1..Len(w) : cs[i + j] = w[j]

IntentCategories ==
    {"image_generation", "code_generation", "web_search", "voice_command",
     "document_analysis", "text_response"}

TriggerWords ==
    {W_generate, W_create, W_image, W_picture, W_code, W_program, W_function, W_write,
     W_script, W_search, W_find, W_latest, W_voice, W_speak, W_audio, W_analyze,
     W_document, W_file}

\* C21: analyzeIntent returns, for every message, one of the six categories with a
\* confidence between 0 and 1 and changes no stored state; it returns the same for
\* every message that differs from the given one in letter case only; and a message
\* that holds none of the trigger words, in any letter case, yields text_response
\* with confidence 0.90.
C21_IntentTotalPureCaseBlind ==
    res # NoIntent =>
        /\ res.type \in IntentCategories
        /\ res.confidence \in 0..100
        /\ convs = <<>> /\ msgs = <<>> /\ nextConvId = 1 /\ nextMsgId = 1
        /\ \A u \in DOMAIN users : \A k \in DOMAIN users[u] : users[u][k] = 0
        /\ \A c \in ConvIds : pendingInc[c] = 0
        /\ \A other \in IntentMessages :
              Folded(other) = Folded(arg) => analyzeIntent(other) = res
        /\ (\A w \in TriggerWords : ~Occurs(Chars(w), Folded(arg)))
              => res = [type |-> "text_response", confidence |-> 90]

\* A message with capital letters has been classified by a trigger word, and another
\* message differs from it in letter case only.
C21_Witness ==
    /\ res # NoIntent
    /\ res.type = "code_generation"
    /\ arg # toLowerCase(arg)
    /\ \E other \in IntentMessages : other # arg /\ Folded(other) = Folded(arg)

\* C22: within one request Gemini is called only after the OpenAI call of that request
\* has failed and never after it succeeded, and the metadata of the text result names
\* the provider whose call produced the content: openai for an OpenAI answer, google
\* for a Gemini answer, and rai for the fixed text used when both calls failed.
C22_FallbackOnlyAfterPrimaryFailed ==
    \A t \in Turns :
        LET T == turn[t]
        IN  /\ T.fallback # "" => T.primary = "failed" /\ T.route \in TextRoutes
            /\ T.primary = "ok" => T.fallback = ""
            /\ T.textResult # NoResponse =>
                  /\ T.route \in TextRoutes
                  /\ T.primary = "ok" =>
                        /\ T.textResult.metadata.provider = "openai"
                        /\ T.textResult.content \in Replies
                  /\ T.fallback = "ok" =>
                        /\ T.textResult.metadata.provider = "google"
                        /\ T.textResult.content \in Replies
                  /\ T.fallback = "failed" =>
                        /\ T.textResult.metadata.provider = "rai"
                        /\ T.textResult.content = FallbackText
                  /\ T.primary = "ok" \/ T.fallback \in {"ok", "failed"}

\* A request whose OpenAI call failed has been answered by Gemini.
C22_Witness ==
    \E t \in Turns :
        /\ turn[t].primary = "failed"
        /\ turn[t].fallback = "ok"
        /\ turn[t].textResult.metadata.provider = "google"

\* The number of entries of the request that carry the user's text.
Occurrences(prompt, message) ==
    Cardinality({i \in DOMAIN prompt : prompt[i] = [role |-> "user", content |-> message]})

\* C30: in a text_response turn the messages sent to the text provider are the system
\* prompt, then the messages the conversation held before the turn, then the current
\* user message as the last entry, and the current user message occurs exactly once.
C30_PromptHoldsCurrentMessageOnce ==
    \A t \in Turns :
        LET T == turn[t]
            earlier == ContextFetch(T.snapshot.msgs, T.conversation.id)
        IN  T.route = "text_response" /\ T.prompt # <<>> =>
               /\ T.prompt = ChatMessages(T.message, earlier)
               /\ Occurrences(T.prompt, T.message) = 1

\* C23: a voice turn transcribes the audio before anything else happens, then runs the
\* standard turn on the transcript with message type voice, so that the user message
\* it stores has the transcript as content; the audio and the transcript are added to
\* the returned user-message record only once that turn has returned; and when the
\* standard turn fails the voice turn fails with the same error and returns nothing.
C23_VoiceTurnOrder ==
    call.op = "handleVoiceMessage" =>
        LET T == turn[VoiceTurn]
        IN  /\ call.pc = "speechToText" =>
                 /\ T.pc = "idle"
                 /\ StoreAsAt(call.snapshot)
                 /\ call.result = IdleCall.result
            /\ call.pc = "handleMessage" =>
                 /\ T.pc # "idle"
                 /\ T.message = call.transcribedText
                 /\ T.messageType = "voice"
                 /\ T.userId = call.userId /\ T.conversationId = call.conversationId
                 /\ call.result = IdleCall.result
                 /\ T.userMessage # NoId =>
                       /\ msgs[T.userMessage].content = call.transcribedText
                       /\ msgs[T.userMessage].messageType = "voice"
                       /\ msgs[T.userMessage].sender = "user"
            /\ call.pc = "done" =>
                 /\ T.pc = "idle"
                 /\ {"originalAudio", "transcribedText"} \subseteq DOMAIN call.result.userMessage
                 /\ call.result.userMessage.originalAudio = call.audioData
                 /\ call.result.userMessage.transcribedText = call.transcribedText
                 /\ call.result.userMessage.content = call.transcribedText
                 /\ call.result.userMessage.type = "voice"
                 /\ call.result.userMessage.id \in (DOMAIN msgs) \ (DOMAIN call.snapshot.msgs)
                 /\ msgs[call.result.userMessage.id].content = call.transcribedText
                 /\ msgs[call.result.userMessage.id].messageType = "voice"
                 /\ call.error = ""
            /\ call.pc = "failed" =>
                 /\ T.pc = "idle"
                 /\ call.error # ""
                 /\ call.result = IdleCall.result

\* A voice turn has returned its enriched result.
C23_Witness ==
    /\ call.op = "handleVoiceMessage"
    /\ call.pc = "done"
    /\ call.result.userMessage.originalAudio = "audio2"
    /\ call.result.userMessage.transcribedText = SpeechToTextPlaceholder

\* Permission p is at least permission r in the order read < write < admin.
AtLeast(p, r) ==
    <<p, r>> \in {<<"read", "read">>, <<"write", "read">>, <<"write", "write">>,
                  <<"admin", "read">>, <<"admin", "write">>, <<"admin", "admin">>}

\* C24: hasAccess(u, r) on a conversation is true exactly when u is its owner or u has
\* a sharing entry whose permission is at least r in the order read < write < admin;
\* for a user who is not the owner and has no entry it is false for every r.
C24_AccessFollowsOwnershipAndShares ==
    call.op = "hasAccess" /\ call.pc = "done" =>
        LET conv == convs[call.conversationId]
            entries == {i \in 1..Len(conv.sharedWith) : conv.sharedWith[i].userId = call.userId}
        IN  /\ Cardinality(entries) <= 1
            /\ call.result.success <=>
                  \/ conv.userId = call.userId
                  \/ \E i \in entries : AtLeast(conv.sharedWith[i].permission, call.permission)
            /\ conv.userId # call.userId /\ entries = {} => ~call.result.success

\* A user who holds write on another user's conversation has been refused admin.
C24_Witness ==
    /\ call.op = "hasAccess" /\ call.pc = "done"
    /\ call.permission = "admin"
    /\ ~call.result.success
    /\ \E i \in 1..Len(convs[call.conversationId].sharedWith) :
          /\ convs[call.conversationId].sharedWith[i].userId = call.userId
          /\ convs[call.conversationId].sharedWith[i].permission = "write"

\* C25: after any sequence of addTag and removeTag calls the stored tags of a
\* conversation hold no value twice; addTag(t) on a conversation that already has t
\* leaves the list as it was; and after removeTag(t) the list does not hold t.
C25_TagsAreASet ==
    /\ \A c \in DOMAIN convs :
          \A i, j \in 1..Len(convs[c].tags) : convs[c].tags[i] = convs[c].tags[j] => i = j
    /\ call.op = "addTag" /\ call.pc = "done"
          /\ TagsInclude(call.snapshot.convs[call.conversationId].tags, call.tag)
          => convs[call.conversationId].tags = call.snapshot.convs[call.conversationId].tags
    /\ call.op = "removeTag" /\ call.pc = "done"
          => ~TagsInclude(convs[call.conversationId].tags, call.tag)

\* The usage counter of a feature, and the features the plans limit.
CounterOf(usage, feature) ==
    CASE feature = "messages" -> usage.messagesSent
      [] feature = "images" -> usage.imagesGenerated
      [] feature = "code" -> usage.codeGenerated

Features == {"messages", "images", "code"}

\* The ceiling of a plan for a feature, -1 for none.
CeilingOf(plan, feature) ==
    CASE plan = "enterprise" -> -1
      [] plan = "free" /\ feature = "messages" -> 100
      [] plan = "free" /\ feature = "images" -> 10
      [] plan = "free" /\ feature = "code" -> 50
      [] plan = "basic" /\ feature = "messages" -> 1000
      [] plan = "basic" /\ feature = "images" -> 100
      [] plan = "basic" /\ feature = "code" -> 500
      [] plan = "premium" /\ feature = "messages" -> 10000
      [] plan = "premium" /\ feature = "images" -> 1000
      [] plan = "premium" /\ feature = "code" -> 5000

\* C26: for each feature (messages, images, code) and each plan, checkLimits returns
\* true when the plan is unlimited for the feature or the user's counter for the feature
\* is strictly below the plan's ceiling, and false when the counter has reached it.
C26_LimitFollowsCounter ==
    res.checked /\ arg.type \in Features =>
        LET ceiling == CeilingOf(arg.plan, arg.type)
            counter == CounterOf(arg.usage, arg.type)
        IN  res.allowed <=> (ceiling = -1 \/ counter < ceiling)

\* The text that the conversation save a turn is about to make assigns to lastMessage.
Assigned(T) == IF T.pc = "updateConversation" THEN T.message ELSE T.aiResponse.content

\* Both turns on the conversation have completed and every counter update has arrived.
BothComplete ==
    /\ nextMsgId = FirstMsgs + 5
    /\ \A t \in Turns : turn[t].pc \in {"idle", "done"}
    /\ \A c \in ConvIds : pendingInc[c] = 0

C28_DeletionLeavesNoMessage ==
    \A t \in Turns :
        (/\ call.op = "deleteConversation" /\ call.pc = "done" /\ call.result.success
         /\ turn[t].pc \in {"done", "failed"}
         /\ call.conversationId \in {turn[t].conversationId, turn[t].conversation.id})
            => MessagesOf(msgs, call.conversationId) = {}

\* The positions of the user messages among the chat page's messages.
UserPositions(messages) == {i \in 1..Len(messages) : messages[i].sender = "user"}

\* C29: when the message_response for a message that handleSendMessage added with status
\* sending arrives, that message's status becomes sent, exactly one AI message is
\* added after it, and no user message is added or removed.
C29_ResponseSettlesOptimisticMessage ==
    [][(turn[ChatTurn].pc = "done" /\ turn'[ChatTurn].pc = "idle") =>
          LET before == chat.messages
              after == chat'.messages
              sent == CHOOSE i \in UserPositions(before) :
                          \A j \in UserPositions(before) : j <= i
          IN  /\ before[sent].status = "sending"
              /\ after[sent].status = "sent"
              /\ Len(after) = Len(before) + 1
              /\ after[Len(after)].sender = "ai"
              /\ UserPositions(after) = UserPositions(before)
              /\ \A i \in UserPositions(before) : after[i].content = before[i].content
      ]_vars

============================================================================
